---- MODULE Spec2Model ----
(***************************************************************************)
(* Model of the XRP grid trading bot (src/src/xrp_trading_bot.py): the     *)
(* trade ledger (TradeDatabase), the order lifecycle functions             *)
(* (place_order_direct, get_open_orders, check_closed_orders,              *)
(* cancel_order), FIFO-by-price margin matching and the supervisor         *)
(* (implement_grid_trading).                                               *)
(*                                                                         *)
(* Fixed point: prices are integers in units of 0.0001 (the pair's 4       *)
(* decimal price precision); volumes are integers in fine units, the       *)
(* exchange accepting only multiples of VolStep fine units (the 8 decimal  *)
(* volume string of the source, scaled so that integers stay in 32 bits);  *)
(* one XRP is 10 fine units.  Percentages are kept in hundredths of a      *)
(* percent, rounded down.                                                  *)
(* Timestamps are not modelled.                                            *)
(*                                                                         *)
(* The last part models the throttling of NotificationManager              *)
(* (src/src/notification_manager.py), with a clock counted in seconds.     *)
(***************************************************************************)
EXTENDS Integers, Sequences, FiniteSets, TLC

VARIABLES
    trades,         \* TradeDatabase.trades: the ledger, in insertion order
    exchange,       \* the exchange's order book for this account, by txid
    trading_stats,  \* the global trading_stats counters
    lastRun,        \* <<[op, pre]>> when the step just taken was a call of
                    \* calculate_margins or get_performance_summary on
                    \* ledger pre, <<>> otherwise
    pc,             \* position of the supervisor (implement_grid_trading)
    depth,          \* nesting depth of implement_grid_trading invocations
    config,         \* the config dict of the innermost invocation
    initial_price,  \* stop-loss baseline of the innermost invocation
    have_quote_currency,  \* result of the quote balance check
    current_price,  \* the price the innermost invocation built its grid at
    grid_prices,    \* the grid of the innermost invocation
    level,          \* index in grid_prices of the next level to place
    todo,           \* order ids still to cancel in the running cancel loop
    resume,         \* where control goes when that loop is done
    entered_by,     \* the call that started the invocation now at its
                    \* entry; "none" once the entry is past
    base_balance,   \* the XRP balance the innermost invocation last read
    order_check_age,  \* sleeps since last_order_check_time was set
    summary_age,    \* sleeps since last_summary_time was set
    since_reconcile,  \* sleeps since check_closed_orders was last called
    since_summary,  \* sleeps since the performance report was last made
    emitted,        \* the calls made and the notifications sent by the
                    \* step just taken, in order
    notification_config,     \* NotificationManager.config
    notification_counts,     \* NotificationManager.notification_counts
    last_notification_time,  \* NotificationManager.last_notification_time
    clock,                   \* datetime.now(), in seconds
    error_config,            \* ErrorHandler.config and notification_manager
    error_counts,            \* ErrorHandler.error_counts
    last_error_time,         \* ErrorHandler.last_error_time
    recovery_attempts        \* ErrorHandler.recovery_attempts

clockVars == <<order_check_age, summary_age, since_reconcile, since_summary>>

vars == <<trades, exchange, trading_stats, lastRun,
          pc, depth, config, initial_price, have_quote_currency,
          current_price, grid_prices, level, todo, resume,
          entered_by, base_balance, order_check_age, summary_age,
          since_reconcile, since_summary, emitted,
          notification_config, notification_counts, last_notification_time,
          clock, error_config, error_counts, last_error_time,
          recovery_attempts>>

notifyVars == <<notification_config, notification_counts,
                last_notification_time, clock>>
errorVars == <<error_config, error_counts, last_error_time,
               recovery_attempts>>
reportVars == <<notifyVars, errorVars>>

ledgerVars == <<trades, exchange, trading_stats, lastRun>>
programVars == <<pc, depth, config, initial_price, have_quote_currency,
                 current_price, grid_prices, level, todo, resume,
                 entered_by, base_balance, order_check_age, summary_age,
                 since_reconcile, since_summary>>
supervisorVars == <<pc, depth, config, initial_price, have_quote_currency,
                    current_price, grid_prices, level, todo, resume,
                    entered_by, base_balance, order_check_age, summary_age,
                    since_reconcile, since_summary, emitted>>

----------------------------------------------------------------------------
(* Bounds                                                                  *)

MaxTrades == 3          \* order submissions explored per behaviour
MaxDepth == 2           \* nested implement_grid_trading invocations explored
MaxGridOrders == 2      \* order submissions explored per supervisor behaviour
MaxForeign == 1         \* orders on the account that the program did not place
MaxAge == 2             \* sleeps counted by a timer; more are counted as this

(* Program constants                                                       *)

VolStep == 3            \* fine units per exchange volume step ("{:.8f}")
MinReinvestVolume == 1  \* the 0.1 XRP reinvestment threshold, fine units
FeeDivisor == 400       \* exchange fee: cost / 400 (0.25 %)
OrderCheckInterval == 15        \* order_check_interval, minutes
DailySummaryInterval == 1440    \* daily_summary_interval, minutes
StabilizeSleep == 60            \* the stop-loss sleep, minutes

None == 0               \* Python None for order ids and prices

\* the orders submitted: side, limit price (0.4800, 0.5200) and volume
Orders ==
    {[type |-> "buy", price |-> 4800, volume |-> 40],
     [type |-> "buy", price |-> 4800, volume |-> 50],
     [type |-> "sell", price |-> 5200, volume |-> 40],
     [type |-> "sell", price |-> 5200, volume |-> 50]}
CurrentPrices == {5000}         \* ticker prices seen by reconciliation

Min(a, b) == IF a < b THEN a ELSE b

RECURSIVE SumSeq(_)
SumSeq(s) == IF s = <<>> THEN 0 ELSE Head(s) + SumSeq(Tail(s))

----------------------------------------------------------------------------
(* Conversions                                                             *)

\* "{:.8f}".format(float(volume)): the volume rounded to the nearest
\* exchange volume step (VolStep is odd, so there are no ties).
FormatVolume(v) == ((v + VolStep \div 2) \div VolStep) * VolStep

\* "{:.4f}".format(float(price)): prices are already multiples of 0.0001.
FormatPrice(p) == p

\* (a variant that bids the current price)
ReinvestPrice_AtMarket(p) == p

\* round(current_price * 0.99, 4), to the nearest 0.0001
ReinvestPrice(p) == (p * 99 + 50) \div 100

----------------------------------------------------------------------------
(* TradeDatabase                                                           *)

\* TradeDatabase.add_trade
add_trade(ts, trade) == Append(ts, trade)

\* TradeDatabase.update_trade: merge `updates` into the first record whose
\* id matches; the ledger is unchanged when there is none.
update_trade(ts, trade_id, updates) ==
    IF \E i \in 1..Len(ts) : ts[i].id = trade_id
    THEN LET i == CHOOSE k \in 1..Len(ts) :
                    /\ ts[k].id = trade_id
                    /\ \A j \in 1..(k-1) : ts[j].id # trade_id
         IN [ts EXCEPT ![i] =
                [f \in DOMAIN ts[i] |->
                    IF f \in DOMAIN updates THEN updates[f] ELSE ts[i][f]]]
    ELSE ts

\* TradeDatabase.get_trade_by_order_id: index of the first record with that
\* order id, 0 when there is none.
get_trade_by_order_id(ts, order_id) ==
    IF \E i \in 1..Len(ts) : ts[i].order_id = order_id
    THEN CHOOSE k \in 1..Len(ts) :
            /\ ts[k].order_id = order_id
            /\ \A j \in 1..(k-1) : ts[j].order_id # order_id
    ELSE 0

----------------------------------------------------------------------------
(* TradeDatabase.calculate_margins                                         *)

IsFilled(t, side) == t.type = side /\ t.status = "filled"

\* indexes k >= i of the filled buys priced p, in ledger order
RECURSIVE BuysAt(_, _, _)
BuysAt(ts, p, i) ==
    IF i > Len(ts) THEN <<>>
    ELSE IF IsFilled(ts[i], "buy") /\ ts[i].price = p
         THEN <<i>> \o BuysAt(ts, p, i + 1)
         ELSE BuysAt(ts, p, i + 1)

\* buy_trades: the filled buys indexed by price level (first loop)
BuyTradesByPrice(ts) ==
    [p \in {ts[i].price : i \in {k \in 1..Len(ts) : IsFilled(ts[k], "buy")}}
        |-> BuysAt(ts, p, 1)]

\* sorted(buy_trades.keys())
RECURSIVE Sorted(_)
Sorted(S) ==
    IF S = {} THEN <<>>
    ELSE LET m == CHOOSE x \in S : \A y \in S : x <= y
         IN <<m>> \o Sorted(S \ {m})

\* (part / whole) * 100 in hundredths of a percent, rounded down; computed
\* in two steps so that the products stay within 32 bits
Percentage(part, whole) ==
    LET units == (part * 100) \div whole
        rest == part * 100 - units * whole
    IN units * 100 + (rest * 100) \div whole

\* MarginData with the percentage taken over the sell revenue instead of
\* the buy cost
MarginData_OverRevenue(ts, b, s, volume) ==
    LET buy_cost == volume * ts[b].price
        sell_revenue == volume * ts[s].price
        margin == sell_revenue - buy_cost
    IN [buy_trade_id |-> ts[b].id,
        sell_trade_id |-> ts[s].id,
        buy_price |-> ts[b].price,
        sell_price |-> ts[s].price,
        volume |-> volume,
        margin |-> margin,
        margin_percentage |-> Percentage(margin, sell_revenue)]

\* margin_data for `volume` units of buy b matched against sell s
MarginData(ts, b, s, volume) ==
    LET buy_cost == volume * ts[b].price
        sell_revenue == volume * ts[s].price
        margin == sell_revenue - buy_cost
    IN [buy_trade_id |-> ts[b].id,
        sell_trade_id |-> ts[s].id,
        buy_price |-> ts[b].price,
        sell_price |-> ts[s].price,
        volume |-> volume,
        margin |-> margin,
        margin_percentage |-> Percentage(margin, buy_cost)]

\* One matching step: sell s, with sell_volume still unmatched, takes the
\* first buy of the bucket at buy_price.
MatchStep(st, s, sell_volume, buy_price) ==
    LET b == Head(st.buy_trades[buy_price])
        buy_volume == st.ts[b].volume
        volume == Min(buy_volume, sell_volume)
        remaining_volume == buy_volume - volume
    IN [ts |-> IF remaining_volume > 0
               THEN [st.ts EXCEPT ![b].volume = remaining_volume]
               ELSE st.ts,
        buy_trades |-> IF remaining_volume > 0
                       THEN st.buy_trades
                       ELSE [st.buy_trades EXCEPT ![buy_price] = Tail(@)],
        margins |-> Append(st.margins, MarginData(st.ts, b, s, volume)),
        log |-> st.log]

\* the buys priced below sell s that are still in a bucket
BuysLeft(st, s) ==
    UNION {{st.buy_trades[p][k] : k \in 1..Len(st.buy_trades[p])} :
            p \in {q \in DOMAIN st.buy_trades : q < st.ts[s].price}}

\* (a variant that also takes the buys priced at the sell price)
RECURSIVE MatchLevels_AtOrBelow(_, _, _, _)
MatchLevels_AtOrBelow(st, s, sell_volume, levels) ==
    IF levels = <<>>
    THEN [st EXCEPT !.log = Append(@, [sell |-> s, remaining |-> sell_volume,
                                        left |-> BuysLeft(st, s)])]
    ELSE LET buy_price == Head(levels)
         IN IF buy_price <= st.ts[s].price /\ st.buy_trades[buy_price] # <<>>
            THEN LET nx == MatchStep(st, s, sell_volume, buy_price)
                     sv == sell_volume - Min(st.ts[Head(st.buy_trades[buy_price])].volume,
                                             sell_volume)
                 IN IF sv <= 0
                    THEN [nx EXCEPT !.log =
                            Append(@, [sell |-> s, remaining |-> sv,
                                       left |-> BuysLeft(nx, s)])]
                    ELSE MatchLevels_AtOrBelow(nx, s, sv, Tail(levels))
            ELSE MatchLevels_AtOrBelow(st, s, sell_volume, Tail(levels))

\* The inner loop over the sorted price levels for sell s: each level is
\* visited once, and the loop ends early when the sell is exhausted.
RECURSIVE MatchLevels(_, _, _, _)
MatchLevels(st, s, sell_volume, levels) ==
    IF levels = <<>>
    THEN [st EXCEPT !.log = Append(@, [sell |-> s, remaining |-> sell_volume,
                                        left |-> BuysLeft(st, s)])]
    ELSE LET buy_price == Head(levels)
         IN IF buy_price < st.ts[s].price /\ st.buy_trades[buy_price] # <<>>
            THEN LET nx == MatchStep(st, s, sell_volume, buy_price)
                     sv == sell_volume - Min(st.ts[Head(st.buy_trades[buy_price])].volume,
                                             sell_volume)
                 IN IF sv <= 0
                    THEN [nx EXCEPT !.log =
                            Append(@, [sell |-> s, remaining |-> sv,
                                       left |-> BuysLeft(nx, s)])]
                    ELSE MatchLevels(nx, s, sv, Tail(levels))
            ELSE MatchLevels(st, s, sell_volume, Tail(levels))

\* The outer loop over the ledger: every filled sell, in ledger order.
RECURSIVE MatchSells(_, _)
MatchSells(st, i) ==
    IF i > Len(st.ts) THEN st
    ELSE IF IsFilled(st.ts[i], "sell")
         THEN MatchSells(MatchLevels(st, i, st.ts[i].volume,
                                     Sorted(DOMAIN st.buy_trades)), i + 1)
         ELSE MatchSells(st, i + 1)

\* (a variant that drops the sells it has processed from the ledger)
calculate_margins_DropsSells(ts) ==
    LET r == MatchSells([ts |-> ts, buy_trades |-> BuyTradesByPrice(ts),
                         margins |-> <<>>, log |-> <<>>], 1)
        kept(t) == ~(t.type = "sell" /\ t.status = "filled")
    IN [r EXCEPT !.ts = SelectSeq(r.ts, kept)]

\* calculate_margins: .margins is the returned list, .ts the ledger it
\* leaves behind, .log what was left when each sell had been processed.
calculate_margins(ts) ==
    MatchSells([ts |-> ts, buy_trades |-> BuyTradesByPrice(ts),
                margins |-> <<>>, log |-> <<>>], 1)

\* TradeDatabase.get_performance_summary
get_performance_summary(ts) ==
    LET r == calculate_margins(ts)
        margins == r.margins
        after == r.ts
        vol(side) == SumSeq([i \in 1..Len(after) |->
                        IF IsFilled(after[i], side) THEN after[i].volume ELSE 0])
    IN [ts |-> after,
        summary |->
          [total_trades |-> Len(after),
           filled_trades |-> Cardinality({i \in 1..Len(after) : after[i].status = "filled"}),
           buy_trades |-> Cardinality({i \in 1..Len(after) : after[i].type = "buy"}),
           sell_trades |-> Cardinality({i \in 1..Len(after) : after[i].type = "sell"}),
           total_margin |-> SumSeq([k \in 1..Len(margins) |-> margins[k].margin]),
           avg_margin_percentage |->
                IF margins # <<>>
                THEN SumSeq([k \in 1..Len(margins) |-> margins[k].margin_percentage])
                        \div Len(margins)
                ELSE 0,
           total_buy_volume |-> vol("buy"),
           total_sell_volume |-> vol("sell"),
           net_volume |-> vol("buy") - vol("sell")]]

----------------------------------------------------------------------------
(* The exchange gateway (Kraken), seen through the calls the bot makes.    *)
(* An order is open until the exchange fills it completely ("closed") or   *)
(* cancels it ("canceled"); it executes the volume it was sent.            *)

\* (timed_out: the order's opentm lies more than order_timeout_hours before
\* the clock of the monitoring loop)
ExchangeOrder(order_type, price, volume) ==
    [type |-> order_type, price |-> FormatPrice(price),
     vol |-> FormatVolume(volume), status |-> "open", timed_out |-> FALSE]

\* the order leaves the open orders, filled ("closed") or canceled: no age
\* is reported for it any more
Leaves(ex, txid, status) ==
    [ex EXCEPT ![txid].status = status, ![txid].timed_out = FALSE]

\* the row of a closed order as get_closed_orders reports it
ClosedOrderRow(o) ==
    [status |-> o.status,
     vol_exec |-> IF o.status = "closed" THEN o.vol ELSE 0,
     price |-> IF o.status = "closed" THEN o.price ELSE 0,
     cost |-> IF o.status = "closed" THEN o.vol * o.price ELSE 0,
     fee |-> IF o.status = "closed" THEN (o.vol * o.price) \div FeeDivisor ELSE 0]

OpenTxids(ex) == {x \in 1..Len(ex) : ex[x].status = "open"}
ClosedTxids(ex) == {x \in 1..Len(ex) : ex[x].status \in {"closed", "canceled"}}

----------------------------------------------------------------------------
(* Order lifecycle functions.  Each operator takes the program state       *)
(* st = [ts, ex, stats] and returns it as the call leaves it, with the     *)
(* call's return value in .ret.                                            *)

Attempts(stats) == stats.total_trades + stats.failed_trades

\* uuid.uuid4(): a value no earlier record carries
NewId(ts) == Len(ts) + 1

NewTrade(ts, order_type, price, volume) ==
    [id |-> NewId(ts), type |-> order_type, price |-> price,
     volume |-> volume, status |-> "pending", order_id |-> None,
     filled_volume |-> 0, actual_price |-> None, cost |-> 0, fee |-> 0,
     error |-> "none"]

GatewayOutcomes == {"accepted", "rejected", "raised", "neither"}

\* AcceptedTrade without the order id being stored
AcceptedTrade_NoOrderId(trade, order_id) ==
    [trade EXCEPT !.status = "open"]

\* the record of an order the gateway accepted under order_id
AcceptedTrade(trade, order_id) ==
    [trade EXCEPT !.order_id = order_id, !.status = "open"]

\* the record of an order the gateway answered with an error list
RejectedTrade(trade) ==
    [trade EXCEPT !.status = "failed", !.error = "rejected"]

\* the record written by the exception handler
RaisedTrade(trade) ==
    [trade EXCEPT !.status = "failed", !.error = "exception"]

\* place_order_direct; gateway is what kraken.query_private('AddOrder')
\* does: it accepts the order and returns its txid, returns an error list,
\* raises, or returns a response with neither an error nor a txid.
place_order_direct(st, order_type, price, volume, gateway) ==
    LET trade == NewTrade(st.ts, order_type, price, volume)
    IN CASE gateway = "rejected" ->
              [ts |-> add_trade(st.ts, RejectedTrade(trade)),
               ex |-> st.ex,
               stats |-> [st.stats EXCEPT !.failed_trades = @ + 1],
               ret |-> "None"]
         [] gateway = "accepted" ->
              [ts |-> add_trade(st.ts, AcceptedTrade(trade, Len(st.ex) + 1)),
               ex |-> Append(st.ex, ExchangeOrder(order_type, price, volume)),
               stats |-> [st.stats EXCEPT !.total_trades = @ + 1,
                                          !.successful_trades = @ + 1],
               ret |-> "result"]
         [] gateway = "neither" ->
              [ts |-> st.ts,
               ex |-> st.ex,
               stats |-> [st.stats EXCEPT !.total_trades = @ + 1,
                                          !.successful_trades = @ + 1],
               ret |-> "result"]
         [] gateway = "raised" ->
              [ts |-> add_trade(st.ts, RaisedTrade(trade)),
               ex |-> st.ex,
               stats |-> [st.stats EXCEPT !.failed_trades = @ + 1],
               ret |-> "None"]

\* The ledger after get_open_orders has walked the open orders `txids`
\* (ascending) and marked every record it finds 'open'.
RECURSIVE MarkOpen(_, _)
MarkOpen(ts, txids) ==
    IF txids = <<>> THEN ts
    ELSE LET i == get_trade_by_order_id(ts, Head(txids))
         IN MarkOpen(IF i # 0
                     THEN update_trade(ts, ts[i].id, [status |-> "open"])
                     ELSE ts,
                     Tail(txids))

\* (a variant that leaves the first open order out)
get_open_orders_OmitsOne(st, ok) ==
    [ts |-> st.ts, ex |-> st.ex, stats |-> st.stats,
     ret |-> IF ok THEN "result" ELSE "None",
     open_orders |-> IF ok /\ OpenTxids(st.ex) # {}
                     THEN Tail(Sorted(OpenTxids(st.ex))) ELSE <<>>]

\* get_open_orders; ok is FALSE when api.get_open_orders raises
get_open_orders(st, ok) ==
    IF ok
    THEN [ts |-> MarkOpen(st.ts, Sorted(OpenTxids(st.ex))), ex |-> st.ex,
          stats |-> st.stats, ret |-> "result",
          open_orders |-> Sorted(OpenTxids(st.ex))]
    ELSE [ts |-> st.ts, ex |-> st.ex, stats |-> st.stats, ret |-> "None",
          open_orders |-> <<>>]

CancelOutcomes == {"done", "pending", "raised"}

\* api.cancel_open_order can answer without raising only for an order that
\* is open: the exchange has canceled it ("done"), or has queued the
\* cancellation and still holds the order open (the answer's pending flag).
\* It raises on a transport failure or when the order is no longer open.
CancelPossible(ex, txid, gateway) ==
    gateway # "raised" => ex[txid].status = "open"

\* (a variant that marks the record canceled when the call raises, too)
cancel_order_AlwaysCanceled(st, txid, gateway) ==
    LET i == get_trade_by_order_id(st.ts, txid)
    IN [ts |-> IF i # 0
               THEN update_trade(st.ts, st.ts[i].id, [status |-> "canceled"])
               ELSE st.ts,
        ex |-> IF gateway = "done"
               THEN Leaves(st.ex, txid, "canceled")
               ELSE st.ex,
        stats |-> st.stats,
        ret |-> IF gateway = "raised" THEN "None" ELSE "result"]

\* cancel_order: whatever the answer says, a call that does not raise marks
\* the record canceled
cancel_order(st, txid, gateway) ==
    IF gateway # "raised"
    THEN LET i == get_trade_by_order_id(st.ts, txid)
         IN [ts |-> IF i # 0
                    THEN update_trade(st.ts, st.ts[i].id, [status |-> "canceled"])
                    ELSE st.ts,
             ex |-> IF gateway = "done"
                    THEN Leaves(st.ex, txid, "canceled")
                    ELSE st.ex,
             stats |-> st.stats, ret |-> "result"]
    ELSE [ts |-> st.ts, ex |-> st.ex, stats |-> st.stats, ret |-> "None"]

\* (a variant that takes every reported order for a canceled one)
ReconcileOrder_Canceled(st, txid, cfg, price_result, gateway) ==
    LET i == get_trade_by_order_id(st.ts, txid)
    IN IF i # 0 /\ st.ts[i].status # "filled"
       THEN [st EXCEPT !.ts = update_trade(st.ts, st.ts[i].id,
                                           [status |-> "canceled"])]
       ELSE st

\* (a variant that processes a reported order whose record is filled, too)
ReconcileOrder_Reread(st, txid, cfg, price_result, gateway) ==
    LET row == ClosedOrderRow(st.ex[txid])
        i == get_trade_by_order_id(st.ts, txid)
    IN IF i # 0
       THEN IF row.status = "closed"
            THEN LET updated == update_trade(st.ts, st.ts[i].id,
                                    [status |-> "filled",
                                     filled_volume |-> row.vol_exec,
                                     actual_price |-> row.price,
                                     cost |-> row.cost,
                                     fee |-> row.fee])
                     matched == IF updated[i].type = "sell"
                                THEN calculate_margins(updated).ts
                                ELSE updated
                     profit == row.cost - row.fee
                     reinvest_volume == IF price_result # None
                                        THEN profit \div price_result ELSE 0
                 IN IF /\ cfg.profit_reinvestment
                       /\ updated[i].type = "sell"
                       /\ price_result # None
                       /\ profit > 0
                       /\ profit > MinReinvestVolume * price_result
                    THEN place_order_direct(
                            [st EXCEPT !.ts = matched], "buy",
                            ReinvestPrice(price_result), reinvest_volume, gateway)
                    ELSE [st EXCEPT !.ts = matched]
            ELSE IF row.status = "canceled"
                 THEN [st EXCEPT !.ts = update_trade(st.ts, st.ts[i].id,
                                            [status |-> "canceled"])]
                 ELSE st
       ELSE st

\* The body of the loop of check_closed_orders for one closed order.
\* price_result is what get_asset_price returns for the reinvestment (None
\* when the ticker call fails), gateway what AddOrder does for it.
ReconcileOrder(st, txid, cfg, price_result, gateway) ==
    LET row == ClosedOrderRow(st.ex[txid])
        i == get_trade_by_order_id(st.ts, txid)
    IN IF i # 0 /\ st.ts[i].status # "filled"
       THEN IF row.status = "closed"
            THEN LET updated == update_trade(st.ts, st.ts[i].id,
                                    [status |-> "filled",
                                     filled_volume |-> row.vol_exec,
                                     actual_price |-> row.price,
                                     cost |-> row.cost,
                                     fee |-> row.fee])
                     matched == IF updated[i].type = "sell"
                                THEN calculate_margins(updated).ts
                                ELSE updated
                     profit == row.cost - row.fee
                     reinvest_volume == IF price_result # None
                                        THEN profit \div price_result ELSE 0
                 IN IF /\ cfg.profit_reinvestment
                       /\ updated[i].type = "sell"
                       /\ price_result # None
                       /\ profit > 0
                       /\ profit > MinReinvestVolume * price_result
                    THEN place_order_direct(
                            [st EXCEPT !.ts = matched], "buy",
                            ReinvestPrice(price_result), reinvest_volume, gateway)
                    ELSE [st EXCEPT !.ts = matched]
            ELSE IF row.status = "canceled"
                 THEN [st EXCEPT !.ts = update_trade(st.ts, st.ts[i].id,
                                            [status |-> "canceled"])]
                 ELSE st
       ELSE st

RECURSIVE ReconcileAll(_, _, _, _, _)
ReconcileAll(st, txids, cfg, price_result, gateway) ==
    IF txids = <<>> THEN st
    ELSE ReconcileAll(ReconcileOrder(st, Head(txids), cfg, price_result, gateway),
                      Tail(txids), cfg, price_result, gateway)

\* check_closed_orders; ok is FALSE when api.get_closed_orders raises
check_closed_orders(st, cfg, ok, price_result, gateway) ==
    IF ok
    THEN [ReconcileAll(st, Sorted(ClosedTxids(st.ex)), cfg, price_result, gateway)
            EXCEPT !.ret = "result"]
    ELSE [st EXCEPT !.ret = "None"]

----------------------------------------------------------------------------
(* Grid generation, trend adjustment and balance checks.  Percentages of   *)
(* the config are in hundredths of a percent, allocations and balances in  *)
(* fine units.                                                             *)

\* round(current_price * (1 - grid_range_percentage / 100), 4)
LowerBound(price, grid_range_percentage) ==
    (price * (10000 - grid_range_percentage) + 5000) \div 10000

\* round(current_price * (1 + grid_range_percentage / 100), 4)
UpperBound(price, grid_range_percentage) ==
    (price * (10000 + grid_range_percentage) + 5000) \div 10000

\* round(((i / m) ** exponent) * range_size, 4) for exponent 2.0
OffsetSquare(i, m, range_size) ==
    (2 * range_size * i * i + m * m) \div (2 * m * m)

\* round(((i / m) ** exponent) * range_size, 4) for exponent 1.5: the
\* integer nearest to the square root of range_size^2 * i^3 / m^3
OffsetThreeHalves(i, m, range_size) ==
    LET target == 4 * range_size * range_size * i * i * i
    IN CHOOSE k \in 0..range_size :
        /\ (k = 0) \/ ((2 * k - 1) * (2 * k - 1) * m * m * m <= target)
        /\ target < (2 * k + 1) * (2 * k + 1) * m * m * m

\* current_position = (current_price - lower_bound) / range_size: the
\* division raises ZeroDivisionError when the two rounded bounds coincide
GridRaises(lower_bound, upper_bound) == upper_bound - lower_bound = 0

\* create_nonlinear_grid: the list it returns when the division of line 599
\* does not raise
create_nonlinear_grid(price, lower_bound, upper_bound, grid_levels, cfg) ==
    LET range_size == upper_bound - lower_bound
        m == grid_levels - 1
    IN [n \in 1..grid_levels |->
            lower_bound + IF cfg.dynamic_sizing
                          THEN OffsetSquare(n - 1, m, range_size)
                          ELSE OffsetThreeHalves(n - 1, m, range_size)]

\* what check_market_trend returns when it fails (Python None)
NoTrend == [trend |-> "None", price_change |-> 0]

\* (a variant whose bearish range has no floor)
adjust_grid_parameters_NoFloor(cfg, trend_data) ==
    IF trend_data = NoTrend THEN cfg
    ELSE LET ranged ==
               IF trend_data.trend = "bullish"
               THEN [cfg EXCEPT !.grid_range_percentage =
                        Min(500, (cfg.grid_range_percentage * 12) \div 10)]
               ELSE IF trend_data.trend = "bearish"
               THEN [cfg EXCEPT !.grid_range_percentage =
                        (cfg.grid_range_percentage * 8) \div 10]
               ELSE cfg
             magnitude == IF trend_data.price_change < 0
                          THEN 0 - trend_data.price_change
                          ELSE trend_data.price_change
         IN IF magnitude > 10
            THEN [ranged EXCEPT !.total_allocation =
                    IF (cfg.total_allocation * 9) \div 10 > 500
                    THEN (cfg.total_allocation * 9) \div 10 ELSE 500]
            ELSE ranged

\* adjust_grid_parameters; trend_data is NoTrend or [trend, price_change]
\* with the change in whole percent
adjust_grid_parameters(cfg, trend_data) ==
    IF trend_data = NoTrend THEN cfg
    ELSE LET ranged ==
               IF trend_data.trend = "bullish"
               THEN [cfg EXCEPT !.grid_range_percentage =
                        Min(500, (cfg.grid_range_percentage * 12) \div 10)]
               ELSE IF trend_data.trend = "bearish"
               THEN [cfg EXCEPT !.grid_range_percentage =
                        IF (cfg.grid_range_percentage * 8) \div 10 > 200
                        THEN (cfg.grid_range_percentage * 8) \div 10 ELSE 200]
               ELSE cfg
             magnitude == IF trend_data.price_change < 0
                          THEN 0 - trend_data.price_change
                          ELSE trend_data.price_change
         IN IF magnitude > 10
            THEN [ranged EXCEPT !.total_allocation =
                    IF (cfg.total_allocation * 9) \div 10 > 500
                    THEN (cfg.total_allocation * 9) \div 10 ELSE 500]
            ELSE ranged

\* what get_account_balance returns when it fails (Python None)
NoBalance == [ok |-> FALSE, XXRP |-> 0, ZGBP |-> 0]

\* check_quote_currency_balance; balance is what get_account_balance
\* returns inside it, price what get_asset_price returns (None on failure)
check_quote_currency_balance(cfg, balance, price) ==
    IF ~balance.ok \/ price = None THEN FALSE
    ELSE LET lower_bound == LowerBound(price, cfg.grid_range_percentage)
             upper_bound == UpperBound(price, cfg.grid_range_percentage)
             grid_step == (2 * (upper_bound - lower_bound) + (cfg.grid_levels - 1))
                            \div (2 * (cfg.grid_levels - 1))
             buy_levels == Cardinality({i \in 0..(cfg.grid_levels - 1) :
                                lower_bound + i * grid_step < price})
             allocation_per_grid == cfg.total_allocation \div cfg.grid_levels
             required_quote == allocation_per_grid * buy_levels
         IN ~(balance.ZGBP < required_quote)

\* current_price_index: the first grid index (from 0) priced above the
\* current price, 0 when there is none
CurrentPriceIndex(grid, price) ==
    IF \E n \in 1..Len(grid) : grid[n] > price
    THEN (CHOOSE n \in 1..Len(grid) :
            /\ grid[n] > price
            /\ \A j \in 1..(n-1) : ~(grid[j] > price)) - 1
    ELSE 0

Max(a, b) == IF a > b THEN a ELSE b

\* (a variant that places a sell at a level priced at the current price)
GridOrder_SellAtPrice(cfg, grid, build_price, have_quote, n) ==
    LET price == grid[n]
        i == n - 1
        allocation_per_grid_base == cfg.total_allocation \div cfg.grid_levels
        current_price_index == CurrentPriceIndex(grid, build_price)
    IN IF price < build_price /\ have_quote
       THEN LET distance_factor == 100 - 5 * (current_price_index - i)
                adjusted_allocation ==
                    IF cfg.dynamic_sizing
                    THEN (allocation_per_grid_base * Max(70, distance_factor)) \div 100
                    ELSE allocation_per_grid_base
            IN [type |-> "buy", price |-> price,
                volume |-> (adjusted_allocation * 10000) \div price]
       ELSE IF price >= build_price
       THEN LET distance_factor == 100 + 10 * (i - current_price_index)
                adjusted_allocation ==
                    IF cfg.dynamic_sizing
                    THEN (allocation_per_grid_base * distance_factor) \div 100
                    ELSE allocation_per_grid_base
            IN [type |-> "sell", price |-> price, volume |-> adjusted_allocation]
       ELSE [type |-> "none", price |-> price, volume |-> 0]

\* the order the placement loop submits for grid level n (from 1):
\* [type, price, volume], of type "none" when the level gets no order
GridOrder(cfg, grid, build_price, have_quote, n) ==
    LET price == grid[n]
        i == n - 1
        allocation_per_grid_base == cfg.total_allocation \div cfg.grid_levels
        current_price_index == CurrentPriceIndex(grid, build_price)
    IN IF price < build_price /\ have_quote
       THEN LET distance_factor == 100 - 5 * (current_price_index - i)
                adjusted_allocation ==
                    IF cfg.dynamic_sizing
                    THEN (allocation_per_grid_base * Max(70, distance_factor)) \div 100
                    ELSE allocation_per_grid_base
            IN [type |-> "buy", price |-> price,
                volume |-> (adjusted_allocation * 10000) \div price]
       ELSE IF price > build_price
       THEN LET distance_factor == 100 + 10 * (i - current_price_index)
                adjusted_allocation ==
                    IF cfg.dynamic_sizing
                    THEN (allocation_per_grid_base * distance_factor) \div 100
                    ELSE allocation_per_grid_base
            IN [type |-> "sell", price |-> price, volume |-> adjusted_allocation]
       ELSE [type |-> "none", price |-> price, volume |-> 0]

\* The stop-loss threshold is computed in double arithmetic,
\* initial_price * (1 - stop_loss_percentage/100), and can come out above
\* the exact product: these are the (baseline, percentage) pairs of the
\* explored inputs for which it does (0.4 * (1 - 20/100) is
\* 0.32000000000000006; 0.4 * (1 - 15/100) is 0.34).
ThresholdRoundsUp == {<<4000, 2000>>}

\* the stop-loss test of the monitoring loop; prices have four decimals,
\* so only a price equal to the exact product is affected by the rounding
StopLoss(price, baseline, stop_loss_percentage) ==
    LET exact == baseline * (10000 - stop_loss_percentage)
    IN \/ price * 10000 < exact
       \/ price * 10000 = exact
            /\ <<baseline, stop_loss_percentage>> \in ThresholdRoundsUp

----------------------------------------------------------------------------
(* Initial state: an empty ledger, no order on the exchange, the           *)
(* supervisor not started.                                                 *)

\* the configuration main() builds from its defaults, with a 4 % range,
\* two levels and no optional feature
\* the notification levels used (LEVEL_ERROR, LEVEL_TRADE)
Levels == {"error", "trade"}

MaxPerHour == 2     \* throttling.max_notifications_per_hour of each level
MinSeconds == 2     \* throttling.min_time_between_notifications_seconds

\* a notification configuration with throttling on, every level enabled
\* and the Pushover notifier configured
DefaultNotificationConfig ==
    [throttling |-> TRUE, notification_levels |-> [l \in Levels |-> TRUE],
     pushover |-> TRUE]

DefaultConfig ==
    [grid_range_percentage |-> 400, grid_levels |-> 2,
     total_allocation |-> 1000, dynamic_sizing |-> FALSE,
     stop_loss_percentage |-> 1500, profit_reinvestment |-> FALSE,
     price_check_interval_minutes |-> 10]

ErrorTypes == {"api_timeout", "network_error"}

\* the shipped error handler configuration: a recovery cooldown of 5
\* minutes for every error type, no notification manager attached
DefaultErrorConfig ==
    [recovery_cooldown_minutes |-> 5, notification_manager |-> FALSE]

\* ErrorHandler.__init__ under configuration cfg
ErrorStart(cfg) ==
    /\ error_config = cfg
    /\ error_counts = [t \in ErrorTypes |-> 0]
    /\ last_error_time = [t \in ErrorTypes |-> None]
    /\ recovery_attempts = [t \in ErrorTypes |-> 0]

\* NotificationManager.__init__ under configuration cfg
NotifyStart(cfg) ==
    /\ notification_config = cfg
    /\ notification_counts = [l \in Levels |-> 0]
    /\ last_notification_time = [l \in Levels |-> None]
    /\ clock = 1

Init ==
    /\ trades = <<>>
    /\ exchange = <<>>
    /\ trading_stats = [total_trades |-> 0, successful_trades |-> 0,
                        failed_trades |-> 0]
    /\ lastRun = <<>>
    /\ pc = "idle"
    /\ depth = 0
    /\ config = DefaultConfig
    /\ initial_price = None
    /\ have_quote_currency = FALSE
    /\ current_price = None
    /\ grid_prices = <<>>
    /\ level = 0
    /\ todo = <<>>
    /\ resume = "none"
    /\ entered_by = "none"
    /\ base_balance = 0
    /\ order_check_age = 0
    /\ summary_age = 0
    /\ since_reconcile = 0
    /\ since_summary = 0
    /\ emitted = <<>>
    /\ NotifyStart(DefaultNotificationConfig)
    /\ ErrorStart(DefaultErrorConfig)

State == [ts |-> trades, ex |-> exchange, stats |-> trading_stats, ret |-> "None"]


----------------------------------------------------------------------------
(* The operations of the ledger and of the order lifecycle, callable in    *)
(* any order.                                                              *)

PlaceOrderUpTo(bound) ==
    \E o \in Orders, gateway \in GatewayOutcomes :
        /\ Attempts(trading_stats) < bound
        /\ LET r == place_order_direct(State, o.type, o.price, o.volume, gateway)
           IN /\ trades' = r.ts
              /\ exchange' = r.ex
              /\ trading_stats' = r.stats
        /\ UNCHANGED reportVars
        /\ lastRun' = <<>>
        /\ emitted' = <<>>
        /\ UNCHANGED programVars

PlaceOrder == PlaceOrderUpTo(MaxTrades)

\* the exchange fills an open order completely
ExchangeFill ==
    \E txid \in OpenTxids(exchange) :
        /\ exchange' = Leaves(exchange, txid, "closed")
        /\ UNCHANGED reportVars
        /\ lastRun' = <<>>
        /\ UNCHANGED <<trades, trading_stats>>
        /\ emitted' = <<>>
        /\ UNCHANGED programVars

\* the exchange cancels an open order (a queued cancellation, expiry, or
\* the account's owner)
ExchangeCancel ==
    \E txid \in OpenTxids(exchange) :
        /\ exchange' = Leaves(exchange, txid, "canceled")
        /\ UNCHANGED reportVars
        /\ lastRun' = <<>>
        /\ UNCHANGED <<trades, trading_stats>>
        /\ emitted' = <<>>
        /\ UNCHANGED programVars

GetOpenOrders ==
    \E ok \in BOOLEAN :
        /\ trades' = get_open_orders(State, ok).ts
        /\ UNCHANGED reportVars
        /\ lastRun' = <<>>
        /\ UNCHANGED <<exchange, trading_stats>>
        /\ emitted' = <<>>
        /\ UNCHANGED programVars

CancelOrder ==
    \E txid \in 1..Len(exchange), gateway \in CancelOutcomes :
        /\ CancelPossible(exchange, txid, gateway)
        /\ LET r == cancel_order(State, txid, gateway)
           IN /\ trades' = r.ts
              /\ exchange' = r.ex
        /\ UNCHANGED reportVars
        /\ lastRun' = <<>>
        /\ UNCHANGED trading_stats
        /\ emitted' = <<>>
        /\ UNCHANGED programVars

\* the ways one check_closed_orders call can go: the closed-order query
\* raising, or answering, and then, with profit reinvestment enabled, what
\* the ticker and the gateway do for the reinvestment order
ReconcileInputs ==
    {[ok |-> FALSE, profit_reinvestment |-> FALSE, price_result |-> None,
      gateway |-> "accepted"],
     [ok |-> TRUE, profit_reinvestment |-> FALSE, price_result |-> None,
      gateway |-> "accepted"],
     [ok |-> TRUE, profit_reinvestment |-> TRUE, price_result |-> None,
      gateway |-> "accepted"]}
    \cup [ok : {TRUE}, profit_reinvestment : {TRUE},
          price_result : CurrentPrices, gateway : GatewayOutcomes]

\* check_closed_orders(config) going the way `in`
CheckClosedOrdersWith(in) ==
    /\ LET r == check_closed_orders(
                    State,
                    [config EXCEPT !.profit_reinvestment = in.profit_reinvestment],
                    in.ok, in.price_result, in.gateway)
       IN /\ Attempts(r.stats) <= MaxTrades
          /\ trades' = r.ts
          /\ exchange' = r.ex
          /\ trading_stats' = r.stats
    /\ UNCHANGED reportVars
    /\ lastRun' = <<>>
    /\ UNCHANGED programVars

CheckClosedOrders ==
    \E in \in ReconcileInputs :
        /\ CheckClosedOrdersWith(in)
        /\ emitted' = <<>>

CalculateMargins ==
    /\ trades' = calculate_margins(trades).ts
    /\ UNCHANGED reportVars
    /\ lastRun' = <<[op |-> "calculate_margins", pre |-> trades]>>
    /\ UNCHANGED <<exchange, trading_stats>>
    /\ emitted' = <<>>
    /\ UNCHANGED programVars

PerformanceSummary ==
    /\ trades' = get_performance_summary(trades).ts
    /\ UNCHANGED reportVars
    /\ lastRun' = <<[op |-> "get_performance_summary", pre |-> trades]>>
    /\ UNCHANGED <<exchange, trading_stats>>
    /\ emitted' = <<>>
    /\ UNCHANGED programVars

Next ==
    \/ PlaceOrder
    \/ ExchangeFill
    \/ ExchangeCancel
    \/ GetOpenOrders
    \/ CancelOrder
    \/ CheckClosedOrders
    \/ CalculateMargins
    \/ PerformanceSummary

Spec == Init /\ [][Next]_vars

----------------------------------------------------------------------------
(* The supervisor: main() and implement_grid_trading.  pc is the position  *)
(* of the innermost invocation: "building" at its entry, "cancelling" in   *)
(* one of its cancel loops, "placing" in the placement loop, "monitoring"  *)
(* at the top of the while loop, "cooldown" in the stop-loss sleep.  A     *)
(* nested invocation that returns makes every enclosing one return (each   *)
(* call is followed by return), so main() returns and the process is       *)
(* "stopped".  Time is counted in sleeps of the monitoring loop: the two   *)
(* timers of the innermost invocation as the sleeps since they were set,   *)
(* and beside them the sleeps since the reconciliation and the             *)
(* performance report were last made by any invocation.                    *)

\* configurations main() can be started with
Configs ==
    {DefaultConfig,
     [DefaultConfig EXCEPT !.dynamic_sizing = TRUE, !.profit_reinvestment = TRUE,
                           !.stop_loss_percentage = 2000,
                           !.price_check_interval_minutes = 720]}

\* what check_market_trend can return: nothing, a flat market, a market
\* that rose 12 % (a falling market is its mirror case and is left out)
TrendInputs ==
    {NoTrend,
     [trend |-> "neutral", price_change |-> 0],
     [trend |-> "bullish", price_change |-> 12]}

\* what get_account_balance can return: nothing, an empty account, an
\* account holding 100 XRP and 50 GBP
Balances ==
    {NoBalance, [ok |-> TRUE, XXRP |-> 0, ZGBP |-> 0],
     [ok |-> TRUE, XXRP |-> 1000, ZGBP |-> 500]}

BuildPrices == {4000}            \* ticker prices at the entry of a build

\* what the balance call and the ticker call inside
\* check_quote_currency_balance can return
QuoteAnswers ==
    {[balance |-> b, price |-> 4000] : b \in Balances}
        \cup {[balance |-> [ok |-> TRUE, XXRP |-> 1000, ZGBP |-> 500],
                price |-> None]}

\* ticker prices at a monitoring tick: 15 % and 20 % below the build price
TickPrices == {3400, 3200}

\* a timer after one more sleep of the monitoring loop
Older(age) == Min(age + 1, MaxAge)

\* current_time - last > interval, for a timer set `age` sleeps of
\* price_check_interval_minutes ago (the time the loop body takes makes
\* the difference exceed the sleeps)
Due(age, interval, cfg) == age * cfg.price_check_interval_minutes >= interval

\* a timer after a sleep of `minutes`
Slept(age, minutes, cfg) ==
    Min(age + minutes \div cfg.price_check_interval_minutes, MaxAge)

\* the "Error" notifications of get_account_balance, get_asset_price,
\* get_open_orders and cancel_order, by the start of their message
NoBalanceEvent == "Error: Failed to get account balance"
NoPriceEvent == "Error: Failed to get price"
NoOpenOrdersEvent == "Error: Failed to get open orders"
NoCancelEvent == "Error: Failed to cancel order"

\* the notification of a call that fails
ErrorIf(failed, event) == IF failed THEN <<event>> ELSE <<>>

\* the notifications of check_quote_currency_balance
QuoteEvents(quote) ==
    IF ~quote.balance.ok THEN <<NoBalanceEvent>>
    ELSE ErrorIf(quote.price = None, NoPriceEvent)

\* the notifications of implement_grid_trading up to the ticker call
EntryEvents == <<"Strategy Started">>

\* the notifications on the way out when the XRP balance is too small
InsufficientBalanceEvents == <<"Warning: Insufficient Balance">>

\* (a variant that lets every balance pass)
Insufficient_Never(balance, cfg) == FALSE

\* base_balance < config.get("total_allocation", 100.0)
Insufficient(balance, cfg) == balance < cfg.total_allocation

\* (a variant that skips the cancel loop)
AfterOpenOrders_Skip(open_orders, then) == then

\* if open_orders is not None and not open_orders.empty: the cancel loop
\* over open_orders.index, and after it `then`
AfterOpenOrders(open_orders, then) ==
    IF open_orders = <<>> THEN then ELSE "cancelling"

\* main(): implement_grid_trading(config)
Start ==
    /\ pc = "idle"
    /\ \E cfg \in Configs : config' = cfg
    /\ pc' = "building"
    /\ depth' = 1
    /\ entered_by' = "main"
    /\ emitted' = <<>>
    /\ UNCHANGED <<initial_price, have_quote_currency, current_price,
                   grid_prices, level, todo, resume, base_balance>>
    /\ UNCHANGED clockVars
    /\ UNCHANGED ledgerVars
    /\ UNCHANGED reportVars

\* the return of the innermost invocation, and with it of every enclosing
\* one and of main(); their locals are gone, the variables that held them
\* keep their last values
Return ==
    /\ pc' = "stopped"
    /\ depth' = 0
    /\ entered_by' = "none"
    /\ UNCHANGED reportVars
    /\ lastRun' = <<>>
    /\ UNCHANGED <<trades, exchange, trading_stats, initial_price,
                   have_quote_currency, current_price, grid_prices, level,
                   todo, resume>>
    /\ UNCHANGED clockVars

\* a nested implement_grid_trading(cfg), called from `site`
Invoke(cfg, site) ==
    /\ depth < MaxDepth
    /\ pc' = "building"
    /\ depth' = depth + 1
    /\ config' = cfg
    /\ entered_by' = site

\* the entry of implement_grid_trading when get_asset_price returns None
BuildNoPrice ==
    /\ pc = "building"
    /\ \E trend_data \in TrendInputs :
            config' = adjust_grid_parameters(config, trend_data)
    /\ emitted' = EntryEvents \o <<NoPriceEvent, "Critical Error">>
    /\ UNCHANGED base_balance
    /\ Return

\* the entry of implement_grid_trading when get_account_balance returns
\* None or less XRP than the total allocation (adjusted to the trend)
BuildNoBalance ==
    /\ pc = "building"
    /\ \E trend_data \in TrendInputs, quote \in QuoteAnswers,
          balance \in Balances :
        LET cfg == adjust_grid_parameters(config, trend_data)
        IN /\ ~balance.ok \/ Insufficient(balance.XXRP, cfg)
           /\ config' = cfg
           /\ base_balance' = IF balance.ok THEN balance.XXRP ELSE base_balance
           /\ emitted' = EntryEvents \o <<"Grid Setup">> \o QuoteEvents(quote)
                 \o (IF balance.ok THEN InsufficientBalanceEvents
                     ELSE <<NoBalanceEvent, "Critical Error">>)
    /\ Return

\* the entry of implement_grid_trading, up to the cancel loop over the
\* orders found open
BuildEntry ==
    /\ pc = "building"
    /\ \E trend_data \in TrendInputs, price \in BuildPrices,
          quote \in QuoteAnswers, balance \in Balances, ok \in BOOLEAN :
        LET cfg == adjust_grid_parameters(config, trend_data)
            lower_bound == LowerBound(price, cfg.grid_range_percentage)
            upper_bound == UpperBound(price, cfg.grid_range_percentage)
            found == get_open_orders(State, ok)
        IN /\ balance.ok
           /\ ~Insufficient(balance.XXRP, cfg)
           /\ config' = cfg
           /\ current_price' = price
           /\ grid_prices' = create_nonlinear_grid(price, lower_bound,
                                   upper_bound, cfg.grid_levels, cfg)
           /\ have_quote_currency' =
                   check_quote_currency_balance(cfg, quote.balance, quote.price)
           /\ base_balance' = balance.XXRP
           /\ trades' = found.ts
           /\ todo' = found.open_orders
           /\ pc' = AfterOpenOrders(found.open_orders, "placing")
           /\ emitted' = EntryEvents \o <<"Grid Setup">> \o QuoteEvents(quote)
                            \o <<"get_open_orders">>
                            \o ErrorIf(~ok, NoOpenOrdersEvent)
    /\ resume' = "place"
    /\ level' = 1
    /\ entered_by' = "none"
    /\ UNCHANGED reportVars
    /\ lastRun' = <<>>
    /\ UNCHANGED <<exchange, trading_stats, initial_price, depth>>
    /\ UNCHANGED clockVars

\* one iteration of a cancel loop: cancel_order(txid); after the last one
\* control goes on to the placement loop, to the stop-loss sleep or into a
\* nested invocation
CancelNext ==
    /\ pc = "cancelling"
    /\ todo # <<>>
    /\ \E gateway \in CancelOutcomes :
        /\ CancelPossible(exchange, Head(todo), gateway)
        /\ LET r == cancel_order(State, Head(todo), gateway)
           IN /\ trades' = r.ts
              /\ exchange' = r.ex
        /\ emitted' = <<"cancel_order">> \o ErrorIf(gateway = "raised", NoCancelEvent)
    /\ todo' = Tail(todo)
    /\ IF Tail(todo) # <<>>
       THEN UNCHANGED <<pc, depth, entered_by, order_check_age, summary_age>>
       ELSE IF resume = "place"
       THEN /\ pc' = "placing"
            /\ UNCHANGED <<depth, entered_by, order_check_age, summary_age>>
       ELSE IF resume = "cooldown"
       THEN /\ pc' = "cooldown"
            /\ UNCHANGED <<depth, entered_by, order_check_age, summary_age>>
       ELSE /\ pc' = "building"
            /\ depth' = depth + 1
            /\ entered_by' = "timeout"
            /\ UNCHANGED <<order_check_age, summary_age>>
    /\ UNCHANGED reportVars
    /\ lastRun' = <<>>
    /\ UNCHANGED <<trading_stats, config, initial_price, have_quote_currency,
                   current_price, grid_prices, level, resume, base_balance,
                   since_reconcile, since_summary>>

\* one iteration of the placement loop; after the last level the
\* invocation sets its timers, takes its stop-loss baseline and starts
\* monitoring
PlaceLevel ==
    /\ pc = "placing"
    /\ level <= Len(grid_prices)
    /\ LET o == GridOrder(config, grid_prices, current_price,
                          have_quote_currency, level)
           done == IF level = Len(grid_prices) THEN <<"Grid Active">> ELSE <<>>
       IN IF o.type = "none"
          THEN /\ emitted' = done
               /\ UNCHANGED <<trades, exchange, trading_stats>>
          ELSE /\ Attempts(trading_stats) < MaxGridOrders
               /\ emitted' = <<"place_order_direct">> \o done
               /\ \E gateway \in GatewayOutcomes :
                    LET r == place_order_direct(State, o.type, o.price,
                                                o.volume, gateway)
                    IN /\ trades' = r.ts
                       /\ exchange' = r.ex
                       /\ trading_stats' = r.stats
    /\ level' = level + 1
    /\ IF level = Len(grid_prices)
       THEN /\ pc' = "monitoring"
            /\ initial_price' = current_price
            /\ order_check_age' = 0
            /\ summary_age' = 0
       ELSE UNCHANGED <<pc, initial_price, order_check_age, summary_age>>
    /\ UNCHANGED reportVars
    /\ lastRun' = <<>>
    /\ UNCHANGED <<depth, config, have_quote_currency, current_price,
                   grid_prices, todo, resume, entered_by, base_balance,
                   since_reconcile, since_summary>>

\* (a variant in which the failed fetch also overwrites the baseline)
TickSkipped_LosesBaseline ==
    /\ pc = "monitoring"
    /\ current_price' = None
    /\ initial_price' = None
    /\ order_check_age' = Older(order_check_age)
    /\ summary_age' = Older(summary_age)
    /\ since_reconcile' = Older(since_reconcile)
    /\ since_summary' = Older(since_summary)
    /\ emitted' = <<"time.sleep", NoPriceEvent>>
    /\ UNCHANGED reportVars
    /\ lastRun' = <<>>
    /\ UNCHANGED <<trades, exchange, trading_stats>>
    /\ UNCHANGED <<pc, depth, config, have_quote_currency,
                   grid_prices, level, todo, resume, entered_by, base_balance>>

\* a tick on which get_asset_price returns None: continue
TickSkipped ==
    /\ pc = "monitoring"
    /\ current_price' = None
    /\ order_check_age' = Older(order_check_age)
    /\ summary_age' = Older(summary_age)
    /\ since_reconcile' = Older(since_reconcile)
    /\ since_summary' = Older(since_summary)
    /\ emitted' = <<"time.sleep", NoPriceEvent>>
    /\ UNCHANGED reportVars
    /\ lastRun' = <<>>
    /\ UNCHANGED <<trades, exchange, trading_stats>>
    /\ UNCHANGED <<pc, depth, config, initial_price, have_quote_currency,
                   grid_prices, level, todo, resume, entered_by, base_balance>>

\* a tick on which the stop-loss test holds: the cancel loop over the
\* orders found open, then the sleep
TickStopLoss ==
    /\ pc = "monitoring"
    /\ \E price \in TickPrices, ok \in BOOLEAN :
        /\ StopLoss(price, initial_price, config.stop_loss_percentage)
        /\ current_price' = price
        /\ LET found == get_open_orders(State, ok)
           IN /\ trades' = found.ts
              /\ todo' = found.open_orders
              /\ pc' = AfterOpenOrders(found.open_orders, "cooldown")
        /\ emitted' = <<"time.sleep", "Stop-Loss Triggered", "get_open_orders">>
                         \o ErrorIf(~ok, NoOpenOrdersEvent)
    /\ resume' = "cooldown"
    /\ order_check_age' = Older(order_check_age)
    /\ summary_age' = Older(summary_age)
    /\ since_reconcile' = Older(since_reconcile)
    /\ since_summary' = Older(since_summary)
    /\ UNCHANGED reportVars
    /\ lastRun' = <<>>
    /\ UNCHANGED <<exchange, trading_stats, depth, config, initial_price,
                   have_quote_currency, grid_prices, level, entered_by,
                   base_balance>>

\* time.sleep(3600); implement_grid_trading(config)
Cooldown ==
    /\ pc = "cooldown"
    /\ Invoke(config, "stop_loss")
    /\ since_reconcile' = Slept(since_reconcile, StabilizeSleep, config)
    /\ since_summary' = Slept(since_summary, StabilizeSleep, config)
    /\ emitted' = <<"time.sleep">>
    /\ UNCHANGED reportVars
    /\ lastRun' = <<>>
    /\ UNCHANGED <<trades, exchange, trading_stats, initial_price,
                   have_quote_currency, current_price, grid_prices, level,
                   todo, resume, base_balance, order_check_age, summary_age>>

\* the ways the reconciliation of a tick can go under cfg: not due, or due
\* with the closed-order query raising or answering, and then, with profit
\* reinvestment enabled, what the ticker and the gateway do for the
\* reinvestment order
TickReconcileInputs(cfg) ==
    {[due |-> FALSE, ok |-> FALSE, price_result |-> None, gateway |-> "accepted"],
     [due |-> TRUE, ok |-> FALSE, price_result |-> None, gateway |-> "accepted"],
     [due |-> TRUE, ok |-> TRUE, price_result |-> None, gateway |-> "accepted"]}
    \cup (IF cfg.profit_reinvestment
          THEN [due : {TRUE}, ok : {TRUE}, price_result : CurrentPrices,
                gateway : GatewayOutcomes]
          ELSE {})

\* the program state after the reconciliation of a tick and its
\* get_open_orders call
TickPrefix(rec, ok) ==
    LET s1 == IF rec.due
              THEN check_closed_orders(State, config, rec.ok,
                                       rec.price_result, rec.gateway)
              ELSE State
    IN get_open_orders(s1, ok)

\* the ledger after the daily summary: calculate_trading_performance, and
\* get_performance_summary again when the balance call answered
DailySummary(ts, balance_ok) ==
    LET once == get_performance_summary(ts).ts
    IN IF balance_ok THEN get_performance_summary(once).ts ELSE once

\* what the daily summary of a tick sends: the performance report, and
\* the summary when the balance call answered
SummaryEvents(balance_ok) ==
    <<"calculate_trading_performance", "Performance Report">>
        \o (IF balance_ok THEN <<"Daily Summary">> ELSE <<NoBalanceEvent>>)

\* the trend check of a tick asks for a rebuild under new_config
Significant(cfg, trend_data, new_config) ==
    /\ trend_data # NoTrend
    /\ trend_data.trend # "neutral"
    /\ (trend_data.price_change > 7 \/ trend_data.price_change < -7)
    /\ new_config # cfg

\* what a tick below the stop-loss test does first: the sleep, the
\* reconciliation when its timer says so, get_open_orders
TickEvents(rec, ok) ==
    <<"time.sleep">>
        \o (IF rec.due THEN <<"check_closed_orders">> ELSE <<>>)
        \o <<"get_open_orders">> \o ErrorIf(~ok, NoOpenOrdersEvent)

\* A tick below the stop-loss test starts with the reconciliation, when it
\* is due, and the open orders; `found` is the program state they leave.
TickBegins(rec, found) ==
    /\ pc = "monitoring"
    /\ \E price \in TickPrices :
        /\ ~StopLoss(price, initial_price, config.stop_loss_percentage)
        /\ current_price' = price
    /\ rec.due = Due(Older(order_check_age), OrderCheckInterval, config)
    /\ Attempts(found.stats) <= MaxGridOrders
    /\ exchange' = found.ex
    /\ trading_stats' = found.stats
    /\ order_check_age' = IF rec.due THEN 0 ELSE Older(order_check_age)
    /\ since_reconcile' = IF rec.due THEN 0 ELSE Older(since_reconcile)
    /\ UNCHANGED reportVars
    /\ lastRun' = <<>>
    /\ UNCHANGED <<initial_price, grid_prices, level, base_balance>>

\* ... get_open_orders returns None: continue
TickNoAnswer ==
    \E rec \in TickReconcileInputs(config) :
        LET found == TickPrefix(rec, FALSE)
        IN /\ TickBegins(rec, found)
           /\ trades' = found.ts
           /\ summary_age' = Older(summary_age)
           /\ since_summary' = Older(since_summary)
           /\ emitted' = TickEvents(rec, FALSE)
           /\ UNCHANGED <<pc, depth, config, have_quote_currency, todo, resume,
                          entered_by>>

\* ... no order is open: implement_grid_trading(config)
TickAllFilled ==
    \E rec \in TickReconcileInputs(config) :
        LET found == TickPrefix(rec, TRUE)
        IN /\ TickBegins(rec, found)
           /\ found.open_orders = <<>>
           /\ trades' = found.ts
           /\ Invoke(config, "all_filled")
           /\ summary_age' = Older(summary_age)
           /\ since_summary' = Older(since_summary)
           /\ emitted' = TickEvents(rec, TRUE)
           /\ UNCHANGED <<have_quote_currency, todo, resume>>

\* time passes: the open orders `txids` are now older than the timeout
MarkTimedOut(ex, txids) ==
    [x \in 1..Len(ex) |->
        IF x \in txids THEN [ex[x] EXCEPT !.timed_out = TRUE] ELSE ex[x]]

\* (a variant that stops at the first order that has timed out)
orders_to_cancel_First(ex) ==
    LET old == {x \in OpenTxids(ex) : ex[x].timed_out}
    IN IF old = {} THEN <<>> ELSE <<Head(Sorted(old))>>

\* orders_to_cancel: the open orders whose age exceeds the timeout
orders_to_cancel(ex) == Sorted({x \in OpenTxids(ex) : ex[x].timed_out})

\* ... some open orders have timed out: the cancel loop over them, then
\* implement_grid_trading(config)
TickTimeout ==
    \E newly \in SUBSET {x \in OpenTxids(exchange) : ~exchange[x].timed_out} :
        /\ orders_to_cancel(MarkTimedOut(exchange, newly)) # <<>>
        /\ depth < MaxDepth
        /\ \E rec \in TickReconcileInputs(config) :
            LET answered == TickPrefix(rec, TRUE)
                found == [answered EXCEPT !.ex = MarkTimedOut(answered.ex, newly)]
            IN
            /\ TickBegins(rec, found)
            /\ trades' = found.ts
            /\ todo' = orders_to_cancel(found.ex)
            /\ resume' = "rebuild"
            /\ pc' = "cancelling"
            /\ summary_age' = Older(summary_age)
            /\ since_summary' = Older(since_summary)
            /\ emitted' = TickEvents(rec, TRUE)
            /\ UNCHANGED <<depth, config, have_quote_currency, entered_by>>

\* ... no order has timed out and the trend check, being due, finds a
\* significant trend: implement_grid_trading(new_config)
TickTrend ==
    /\ orders_to_cancel(exchange) = <<>>
    /\ \E rec \in TickReconcileInputs(config), trend_data \in TrendInputs :
        LET found == TickPrefix(rec, TRUE)
            new_config == adjust_grid_parameters(config, trend_data)
        IN /\ TickBegins(rec, found)
           /\ found.open_orders # <<>>
           /\ Significant(config, trend_data, new_config)
           /\ trades' = found.ts
           /\ Invoke(new_config, "trend")
           /\ summary_age' = Older(summary_age)
           /\ since_summary' = Older(since_summary)
           /\ emitted' = TickEvents(rec, TRUE)
           /\ UNCHANGED <<have_quote_currency, todo, resume>>

\* ... no rebuild is asked for by the trend check: the quote balance check
\* when buys were left out and reinvestment is on, with
\* implement_grid_trading(config) when it succeeds, else the daily summary
\* when its timer says so
TickQuiet ==
    /\ orders_to_cancel(exchange) = <<>>
    /\ \E rec \in TickReconcileInputs(config),
       quote \in IF ~have_quote_currency /\ config.profit_reinvestment
                 THEN QuoteAnswers
                 ELSE {[balance |-> NoBalance, price |-> None]},
       balance_ok \in BOOLEAN :
        LET found == TickPrefix(rec, TRUE)
            recheck == ~have_quote_currency /\ config.profit_reinvestment
            have_quote == IF recheck
                          THEN check_quote_currency_balance(config, quote.balance,
                                                            quote.price)
                          ELSE have_quote_currency
            summary_due == Due(Older(summary_age), DailySummaryInterval, config)
        IN /\ TickBegins(rec, found)
           /\ found.open_orders # <<>>
           /\ have_quote_currency' = have_quote
           /\ IF recheck /\ have_quote
              THEN /\ balance_ok
                   /\ trades' = found.ts
                   /\ Invoke(config, "quote")
                   /\ summary_age' = Older(summary_age)
                   /\ since_summary' = Older(since_summary)
                   /\ emitted' = TickEvents(rec, TRUE)
                   /\ UNCHANGED <<todo, resume>>
              ELSE IF summary_due
              THEN /\ trades' = DailySummary(found.ts, balance_ok)
                   /\ summary_age' = 0
                   /\ since_summary' = 0
                   /\ emitted' = TickEvents(rec, TRUE)
                                    \o (IF recheck THEN QuoteEvents(quote) ELSE <<>>)
                                    \o SummaryEvents(balance_ok)
                   /\ UNCHANGED <<pc, depth, config, todo, resume, entered_by>>
              ELSE /\ balance_ok
                   /\ trades' = found.ts
                   /\ summary_age' = Older(summary_age)
                   /\ since_summary' = Older(since_summary)
                   /\ emitted' = TickEvents(rec, TRUE)
                                    \o (IF recheck THEN QuoteEvents(quote) ELSE <<>>)
                   /\ UNCHANGED <<pc, depth, config, todo, resume, entered_by>>

SupervisorNext ==
    \/ Start
    \/ BuildNoPrice
    \/ BuildNoBalance
    \/ BuildEntry
    \/ CancelNext
    \/ PlaceLevel
    \/ TickSkipped
    \/ TickStopLoss
    \/ Cooldown
    \/ TickNoAnswer
    \/ TickAllFilled
    \/ TickTimeout
    \/ TickTrend
    \/ TickQuiet
    \/ ExchangeFill
    \/ ExchangeCancel

SupervisorSpec == Init /\ [][SupervisorNext]_vars

----------------------------------------------------------------------------
(* Properties of the ledger and of the order lifecycle                     *)

Ids(ts) == 1..Len(ts)

AllowedTransitions ==
    {<<"pending", "open">>, <<"pending", "failed">>,
     <<"open", "filled">>, <<"open", "canceled">>}

\* C1: across any sequence of placements, cancellations, open-order
\* refreshes and reconciliations a record's status changes only along
\* pending->open, pending->failed, open->filled or open->canceled (a record
\* enters the ledger straight from pending); failed, canceled and filled
\* records never change status again.
C1_StatusTransitions ==
    [][/\ Len(trades') >= Len(trades)
       /\ \A i \in Ids(trades) :
            trades'[i].status # trades[i].status
                => <<trades[i].status, trades'[i].status>> \in AllowedTransitions
       /\ \A i \in Ids(trades') \ Ids(trades) :
            <<"pending", trades'[i].status>> \in AllowedTransitions]_vars

\* a ledger in which orders have been filled, canceled and refused
C1_Witness ==
    /\ \E i \in Ids(trades) : trades[i].status = "filled"
    /\ \E i \in Ids(trades) : trades[i].status = "canceled"
    /\ \E i \in Ids(trades) : trades[i].status = "failed"

\* the volume of the records of margins that reference trade id on `side`
MatchedVolume(margins, side, id) ==
    SumSeq([k \in 1..Len(margins) |->
                IF (IF side = "buy" THEN margins[k].buy_trade_id
                                    ELSE margins[k].sell_trade_id) = id
                THEN margins[k].volume ELSE 0])

JustRan == lastRun # <<>>
PreLedger == lastRun[1].pre

\* C2: two calculate_margins calls in succession, with nothing in between,
\* never match more of a buy or of a sell than that trade's volume: here the
\* first call ran on PreLedger and the second runs on the ledger it left.
C2_MatchingIdempotent ==
    JustRan =>
        LET first == calculate_margins(PreLedger).margins
            second == calculate_margins(trades).margins
        IN \A i \in Ids(PreLedger) :
            MatchedVolume(first, PreLedger[i].type, PreLedger[i].id)
              + MatchedVolume(second, PreLedger[i].type, PreLedger[i].id)
                <= PreLedger[i].volume

\* C3: every record's filled volume is at most its requested volume.
C3_FilledWithinRequested ==
    \A i \in Ids(trades) : trades[i].filled_volume <= trades[i].volume

\* C4: after a matching run, the records that reference a filled sell add up
\* to at most that sell's filled volume.
C4_SellMatchedWithinFilled ==
    JustRan =>
        \A i \in Ids(trades) :
            IsFilled(trades[i], "sell") =>
                MatchedVolume(calculate_margins(PreLedger).margins, "sell",
                              trades[i].id) <= trades[i].filled_volume

\* C5: when the run has finished a sell, the sell is matched entirely or no
\* filled buy priced below it has volume left.
C5_SellExhaustsEligibleBuys ==
    JustRan =>
        LET log == calculate_margins(PreLedger).log
        IN \A k \in 1..Len(log) : log[k].remaining <= 0 \/ log[k].left = {}

FilledIds(ts) == {i \in Ids(ts) : ts[i].status = "filled"}

\* the ledger holds exactly one filled buy b and one filled sell s, of the
\* same volume, the sell priced above the buy
OnePair(ts, b, s) ==
    /\ FilledIds(ts) = {b, s}
    /\ ts[b].type = "buy" /\ ts[s].type = "sell"
    /\ ts[b].volume = ts[s].volume
    /\ ts[s].price > ts[b].price

\* C6: on a ledger with one filled buy of volume v at b and one filled sell
\* of volume v at s > b, matching returns exactly one record, of volume v,
\* margin v * (s - b) and margin percentage (s - b) / b * 100.
C6_SinglePairMargin ==
    JustRan =>
        \A b, s \in Ids(PreLedger) :
            OnePair(PreLedger, b, s) =>
                LET margins == calculate_margins(PreLedger).margins
                    v == PreLedger[b].volume
                    bp == PreLedger[b].price
                    sp == PreLedger[s].price
                IN /\ Len(margins) = 1
                   /\ margins[1].buy_trade_id = PreLedger[b].id
                   /\ margins[1].sell_trade_id = PreLedger[s].id
                   /\ margins[1].volume = v
                   /\ margins[1].margin = v * (sp - bp)
                   /\ margins[1].margin_percentage = ((sp - bp) * 10000) \div bp

\* matching has just run on a one-pair ledger
C6_Witness ==
    /\ JustRan
    /\ \E b, s \in Ids(PreLedger) : OnePair(PreLedger, b, s)
    /\ Len(calculate_margins(PreLedger).margins) = 1

\* C7: get_performance_summary leaves every field of every record as it
\* was, and a second call returns the totals of the first.
C7_SummaryIsPure ==
    (JustRan /\ lastRun[1].op = "get_performance_summary") =>
        /\ trades = PreLedger
        /\ get_performance_summary(trades).summary
                = get_performance_summary(PreLedger).summary

\* C8: every place_order_direct call (each one raises total_trades or
\* failed_trades by one) adds exactly one record to the ledger.
C8_OneRecordPerAttempt ==
    [][Len(trades') - Len(trades)
            = Attempts(trading_stats') - Attempts(trading_stats)]_vars

NewOpen == {i \in Ids(trades') \ Ids(trades) : trades'[i].status = "open"}
NewFailed == {i \in Ids(trades') \ Ids(trades) : trades'[i].status = "failed"}

\* C9: an order the gateway accepted is recorded open under the order id
\* the exchange gave it; an order it rejected, or whose call raised, is
\* recorded failed with the error and no order id; so an open record always
\* has its order id.
C9_PlacementOutcome ==
    [][/\ \A i \in Ids(trades') \ Ids(trades) :
            \/ /\ trades'[i].status = "open"
               /\ trades'[i].order_id \in (1..Len(exchange')) \ (1..Len(exchange))
               /\ trades'[i].error = "none"
            \/ /\ trades'[i].status = "failed"
               /\ trades'[i].error # "none"
               /\ trades'[i].order_id = None
       /\ Cardinality(NewOpen) = Len(exchange') - Len(exchange)
       /\ Cardinality(NewFailed)
            = trading_stats'.failed_trades - trading_stats.failed_trades
       /\ \A i \in Ids(trades') :
            trades'[i].status = "open" => trades'[i].order_id # None]_vars

\* an accepted, a rejected and a raised submission are all on the ledger
C9_Witness ==
    /\ \E i \in Ids(trades) : trades[i].status = "open" /\ trades[i].order_id # None
    /\ \E i \in Ids(trades) : trades[i].status = "failed" /\ trades[i].error = "rejected"
    /\ \E i \in Ids(trades) : trades[i].status = "failed" /\ trades[i].error = "exception"

----------------------------------------------------------------------------
(* Properties of the supervisor                                            *)

\* C10: once started, the supervisor never terminates: whatever the price
\* fetch, the balance fetch and the balance at the entry of a build, control
\* stays in the build / monitor cycle and main() does not return.
C10_SupervisorNeverStops == pc # "stopped"

\* the step log holds event e
Emitted(log, e) == \E i \in DOMAIN log : log[i] = e

\* how often the step log holds event e
Count(log, e) == Cardinality({i \in DOMAIN log : log[i] = e})

\* C11: a tick that finds no order open starts the rebuild with the
\* configuration in effect, and the rebuild does not alter it: the new
\* invocation builds with the same range percentage and total allocation.
C11_RebuildKeepsConfig ==
    [][/\ (pc = "monitoring" /\ entered_by' = "all_filled" => config' = config)
       /\ (pc = "building" /\ entered_by = "all_filled"
                /\ pc' \in {"cancelling", "placing"}
             => /\ config'.grid_range_percentage = config.grid_range_percentage
                /\ config'.total_allocation = config.total_allocation)]_vars

\* C12: when the balance call answers at the entry of a build with less XRP
\* than the total allocation, the invocation places no order, cancels no
\* order, leaves the ledger as it was and sends exactly one
\* insufficient-balance notification.
C12_InsufficientBalanceAborts ==
    [][pc = "building" /\ pc' # "building"
            /\ ~Emitted(emitted', "Critical Error")
            /\ base_balance' < config'.total_allocation
         => /\ trades' = trades
            /\ exchange' = exchange
            /\ trading_stats' = trading_stats
            /\ ~Emitted(emitted', "get_open_orders")
            /\ ~Emitted(emitted', "cancel_order")
            /\ ~Emitted(emitted', "place_order_direct")
            /\ Count(emitted', "Warning: Insufficient Balance") = 1
            /\ pc' = "stopped"]_vars

C12_Witness ==
    /\ pc = "stopped"
    /\ Emitted(emitted, "Warning: Insufficient Balance")
    /\ base_balance < config.total_allocation
    /\ trades # <<>>

\* C13: a tick that reads a price triggers the stop-loss exactly when that
\* price is strictly below baseline * (1 - stop_loss_percentage / 100);
\* the baseline is the price the grid was built at and stays as it is
\* while the invocation monitors.
C13_StopLossThreshold ==
    [][/\ (pc = "monitoring" /\ Emitted(emitted', "time.sleep")
                /\ current_price' # None
             => (Emitted(emitted', "Stop-Loss Triggered")
                    <=> current_price' * 10000
                            < initial_price * (10000 - config.stop_loss_percentage)))
       /\ (pc = "placing" /\ pc' = "monitoring" => initial_price' = current_price)
       /\ (pc = "monitoring" => initial_price' = initial_price)]_vars

\* the step's get_open_orders call, its last call, answered
Answered(log) == log # <<>> /\ log[Len(log)] = "get_open_orders"

\* the members of a sequence
Range(seq) == {seq[i] : i \in DOMAIN seq}

\* C14: when the stop-loss triggers, the cancel loop takes every order
\* get_open_orders reported open and issues one cancel_order for each, then
\* comes the one-hour sleep, then the entry of a new build; between the
\* trigger and that entry the program neither reconciles nor submits an
\* order.
C14_StopLossSequence ==
    [][/\ (Emitted(emitted', "Stop-Loss Triggered")
             => /\ resume' = "cooldown"
                /\ Answered(emitted') => Range(todo') = OpenTxids(exchange)
                /\ pc' = IF todo' = <<>> THEN "cooldown" ELSE "cancelling"
                /\ ~Emitted(emitted', "check_closed_orders")
                /\ trading_stats' = trading_stats)
       /\ (pc = "cancelling" /\ resume = "cooldown" /\ emitted' # <<>>
             => /\ Head(emitted') = "cancel_order"
                /\ todo' = Tail(todo)
                /\ pc' = IF todo' = <<>> THEN "cooldown" ELSE "cancelling"
                /\ trading_stats' = trading_stats)
       /\ (pc = "cooldown" /\ emitted' # <<>>
             => /\ emitted' = <<"time.sleep">>
                /\ todo = <<>>
                /\ pc' = "building"
                /\ entered_by' = "stop_loss"
                /\ trades' = trades
                /\ exchange' = exchange
                /\ trading_stats' = trading_stats)]_vars

C14_Witness ==
    /\ pc = "cooldown"
    /\ emitted = <<"cancel_order">>
    /\ todo = <<>>
    /\ \E x \in DOMAIN exchange : exchange[x].status = "canceled"

\* C15: a build takes every order get_open_orders reports open at its
\* entry and issues one cancel_order for each before it submits the first
\* order of the new grid.
C15_CancelBeforePlacing ==
    [][/\ (pc = "building" /\ pc' \in {"cancelling", "placing"}
             => /\ Answered(emitted') => Range(todo') = OpenTxids(exchange)
                /\ pc' = IF todo' = <<>> THEN "placing" ELSE "cancelling"
                /\ resume' = "place"
                /\ trading_stats' = trading_stats)
       /\ (pc = "cancelling" /\ resume = "place" /\ emitted' # <<>>
             => /\ Head(emitted') = "cancel_order"
                /\ todo' = Tail(todo)
                /\ pc' = IF todo' = <<>> THEN "placing" ELSE "cancelling"
                /\ trading_stats' = trading_stats)
       /\ (pc = "placing" => todo = <<>>)]_vars

C15_Witness ==
    /\ pc = "placing"
    /\ resume = "place"
    /\ emitted = <<"cancel_order">>
    /\ \E x \in DOMAIN exchange : exchange[x].status = "canceled"
    /\ Attempts(trading_stats) < MaxGridOrders

\* C16: the nesting depth of implement_grid_trading stays constant over
\* rebuilds and restarts: a new build is entered by the loop of the one
\* running invocation, never by a further invocation on top of it.
C16_DepthConstant == depth <= 1

\* the orders on the exchange that no record of the ledger refers to
Foreign(ex, ts) == {x \in DOMAIN ex : get_trade_by_order_id(ts, x) = 0}

\* the owner of the account places an order by hand
ForeignOrder ==
    /\ Cardinality(Foreign(exchange, trades)) < MaxForeign
    /\ exchange' = Append(exchange, ExchangeOrder("sell", 5200, 40))
    /\ UNCHANGED reportVars
    /\ lastRun' = <<>>
    /\ emitted' = <<>>
    /\ UNCHANGED <<trades, trading_stats>>
    /\ UNCHANGED programVars

\* check_closed_orders(config), with the call and a None it returns in
\* the step log
CheckClosedOrdersLogged ==
    \E in \in ReconcileInputs :
        /\ CheckClosedOrdersWith(in)
        /\ emitted' = <<"check_closed_orders">>
                         \o (IF in.ok THEN <<>> ELSE <<"None">>)

\* The reconciliation on an account the owner trades on as well.
ReconcileNext ==
    \/ PlaceOrderUpTo(MaxGridOrders)
    \/ ForeignOrder
    \/ ExchangeFill
    \/ ExchangeCancel
    \/ GetOpenOrders
    \/ CancelOrder
    \/ CheckClosedOrdersLogged

ReconcileSpec == Init /\ [][ReconcileNext]_vars

\* C17: a check_closed_orders call whose query answers takes, for every
\* order the exchange reports and whose record is not yet filled, the
\* record to "filled" with the reported executed volume, price, cost and
\* fee when the order is closed, and to "canceled" when it is canceled;
\* reported orders without such a record leave the ledger as it was.
C17_ReconcileClosedOrders ==
    [][emitted' = <<"check_closed_orders">>
        => LET Pending ==
                   {x \in DOMAIN exchange :
                       /\ exchange[x].status \in {"closed", "canceled"}
                       /\ get_trade_by_order_id(trades, x) # 0
                       /\ trades[get_trade_by_order_id(trades, x)].status
                               # "filled"}
           IN /\ \A x \in Pending :
                    LET i == get_trade_by_order_id(trades, x)
                        o == exchange[x]
                    IN IF o.status = "closed"
                       THEN /\ trades'[i].status = "filled"
                            /\ trades'[i].filled_volume = o.vol
                            /\ trades'[i].actual_price = o.price
                            /\ trades'[i].cost = o.vol * o.price
                            /\ trades'[i].fee = (o.vol * o.price) \div FeeDivisor
                       ELSE trades'[i].status = "canceled"
              /\ Pending = {} => trades' = trades]_vars

C17_Witness ==
    /\ emitted = <<"check_closed_orders">>
    /\ \E i \in DOMAIN trades : trades[i].status = "filled" /\ trades[i].cost > 0
    /\ \E i \in DOMAIN trades : trades[i].status = "canceled"
    /\ \E x \in DOMAIN exchange :
            /\ exchange[x].status = "closed"
            /\ get_trade_by_order_id(trades, x) = 0

\* the step is a tick that got past the stop-loss test
PastStopLoss ==
    /\ pc = "monitoring"
    /\ Emitted(emitted', "get_open_orders")
    /\ ~Emitted(emitted', "Stop-Loss Triggered")

\* the step is a tick that ran to the end of the loop body
FullTick ==
    /\ PastStopLoss
    /\ ~Emitted(emitted', NoOpenOrdersEvent)
    /\ pc' = "monitoring"

\* C18: whatever rebuilds happen, check_closed_orders is called again
\* within the order-check interval of its previous call: a tick that gets
\* past the stop-loss test when that interval has passed since the last
\* call makes the call.
C18_ReconcileEveryInterval ==
    [][PastStopLoss /\ Due(Older(since_reconcile), OrderCheckInterval, config)
         => Emitted(emitted', "check_closed_orders")]_vars

\* C19: the performance report is sent once per 24 hours whatever
\* rebuilds happen: never sooner than 24 hours after the last one, and by
\* every tick that runs to the end of the loop body when 24 hours have
\* passed since the last one.
C19_SummaryEveryDay ==
    [][/\ (Emitted(emitted', "Performance Report")
             => Due(Older(since_summary), DailySummaryInterval, config))
       /\ (FullTick /\ Due(Older(since_summary), DailySummaryInterval, config)
             => Emitted(emitted', "Performance Report"))]_vars

\* C20: the reconciliation of a tick submits an order only when profit
\* reinvestment is enabled and a sell record has just become filled whose
\* profit, cost - fee, buys at least the minimum volume (0.1 XRP) at the
\* current price; the order is a buy, priced 1 % below the current price
\* and sized profit / current price (as its record shows, when
\* place_order_direct adds one).
C20_ReinvestOnlyProfit ==
    [][pc = "monitoring" /\ Emitted(emitted', "check_closed_orders")
            /\ Attempts(trading_stats') > Attempts(trading_stats)
         => /\ config.profit_reinvestment
            /\ Len(trades') <= Len(trades) + 1
            /\ \E i \in DOMAIN trades, p \in CurrentPrices :
                  LET profit == trades'[i].cost - trades'[i].fee
                      new == trades'[Len(trades')]
                  IN /\ trades[i].status # "filled"
                     /\ trades'[i].status = "filled"
                     /\ trades'[i].type = "sell"
                     /\ profit >= MinReinvestVolume * p
                     /\ Len(trades') > Len(trades)
                          => /\ new.type = "buy"
                             /\ new.price * 100 <= p * 99 + 50
                             /\ new.price * 100 > p * 99 - 50
                             /\ new.volume = profit \div p]_vars

C20_Witness ==
    /\ pc = "monitoring"
    /\ Emitted(emitted, "check_closed_orders")
    /\ config.profit_reinvestment
    /\ \E i \in DOMAIN trades : trades[i].type = "sell" /\ trades[i].status = "filled"
    /\ trades # <<>>
    /\ trades[Len(trades)].type = "buy"
    /\ trades[Len(trades)].status = "open"
    /\ trades[Len(trades)].price = 4950

\* C21: a cancel_order call of a cancel loop whose gateway call answers
\* leaves the record of that order canceled; one whose gateway call raises
\* leaves every record as it was; either way nothing else in the ledger
\* changes and the caller goes on with the rest of its loop.
C21_CancelBestEffort ==
    [][pc = "cancelling" /\ emitted' # <<>>
         => LET txid == Head(todo)
                i == get_trade_by_order_id(trades, txid)
            IN /\ Head(emitted') = "cancel_order"
               /\ todo' = Tail(todo)
               /\ pc' = IF todo' # <<>> THEN "cancelling"
                        ELSE IF resume = "place" THEN "placing"
                        ELSE IF resume = "cooldown" THEN "cooldown"
                        ELSE "building"
               /\ Len(trades') = Len(trades)
               /\ \A k \in DOMAIN trades :
                     trades'[k] = IF k = i /\ ~Emitted(emitted', NoCancelEvent)
                                  THEN [trades[k] EXCEPT !.status = "canceled"]
                                  ELSE trades[k]]_vars

C21_Witness ==
    /\ emitted = <<"cancel_order", NoCancelEvent>>
    /\ pc # "cancelling"
    /\ \E k \in DOMAIN trades : trades[k].status = "canceled"
    /\ \E k \in DOMAIN trades : trades[k].status = "open"

----------------------------------------------------------------------------
\* The TradeDatabase class on its own: add_trade and update_trade called by
\* a client that chooses the records' ids itself (the bot draws a uuid4 per
\* record; the class takes whatever 'id' the dictionary carries).

TradeIds == 1..MaxTrades

TradeInputs ==
    {[NewTrade(<<>>, o.type, o.price, o.volume) EXCEPT !.id = id] :
        id \in TradeIds, o \in Orders}

AddTrade ==
    /\ Len(trades) < MaxTrades
    /\ \E trade \in TradeInputs : trades' = add_trade(trades, trade)
    /\ UNCHANGED reportVars
    /\ lastRun' = <<>>
    /\ UNCHANGED <<exchange, trading_stats>>
    /\ emitted' = <<"add_trade">>
    /\ UNCHANGED programVars

UpdateTrade ==
    /\ \E trade_id \in TradeIds :
          trades' = update_trade(trades, trade_id, [status |-> "open"])
    /\ UNCHANGED reportVars
    /\ lastRun' = <<>>
    /\ UNCHANGED <<exchange, trading_stats>>
    /\ emitted' = <<"update_trade">>
    /\ UNCHANGED programVars

LedgerNext == AddTrade \/ UpdateTrade

LedgerSpec == Init /\ [][LedgerNext]_vars

\* C22: add_trade of a record whose id some record of the ledger already
\* carries fails and leaves the ledger unchanged: no step appends a record
\* with an id that was in the ledger before (so ids stay unique).
C22_DuplicateIdRejected ==
    [][Len(trades') > Len(trades)
         => \A k \in DOMAIN trades : trades[k].id # trades'[Len(trades')].id]_vars

TradeIdsOf(ts) == {ts[k].id : k \in DOMAIN ts}

\* C23: no record is ever removed from the ledger: whatever placement,
\* cancellation, open-order refresh, reconciliation, margin matching or
\* summary runs, every trade id of the ledger is still in it afterwards.
C23_LedgerOnlyGrows ==
    [][TradeIdsOf(trades) \subseteq TradeIdsOf(trades')
         /\ Len(trades') >= Len(trades)]_vars

C23_Witness ==
    /\ Len(trades) = MaxTrades
    /\ lastRun # <<>>
    /\ lastRun[1].op = "get_performance_summary"
    /\ lastRun[1].pre # trades
    /\ \E k \in DOMAIN trades : trades[k].status = "canceled"
    /\ \E k \in DOMAIN trades : trades[k].status = "filled"

----------------------------------------------------------------------------
\* The grid generator on its own: the price, the range percentage, the
\* level count and the dynamic-sizing flag are drawn from small sets and the
\* bounds and the grid are computed as lines 777-781 compute them.

GridPrices == {10, 200, 1000, 3000, 4000}   \* 0.0010 .. 0.4000
GridRanges == {150, 220, 350, 400, 450, 550}    \* 1.5 % .. 5.5 %
GridLevelCounts == {2, 3, 5, 14}
GridAllocations == {400, 550, 1000}          \* 40, 55, 100 XRP

\* a grid of 166 levels with dynamic sizing, over 10000 XRP
LargeGridConfigs ==
    {[DefaultConfig EXCEPT !.grid_range_percentage = 400,
                           !.grid_levels = 166,
                           !.dynamic_sizing = TRUE,
                           !.total_allocation = 100000]}

\* what check_market_trend returns: None, or a trend with the price change
\* of the period in percent
GridTrends ==
    {NoTrend} \cup {[trend |-> t, price_change |-> c] :
                        t \in {"neutral", "bullish", "bearish"},
                        c \in {0 - 12, 10, 12}}

GridInit ==
    /\ trades = <<>>
    /\ exchange = <<>>
    /\ trading_stats = [total_trades |-> 0, successful_trades |-> 0,
                        failed_trades |-> 0]
    /\ lastRun = <<>>
    /\ pc = "idle"
    /\ depth = 0
    /\ config \in {[DefaultConfig EXCEPT !.grid_range_percentage = r,
                                         !.grid_levels = n,
                                         !.dynamic_sizing = d,
                                         !.total_allocation = a] :
                        r \in GridRanges, n \in GridLevelCounts,
                        d \in BOOLEAN, a \in GridAllocations}
                \cup LargeGridConfigs
    /\ initial_price = None
    /\ have_quote_currency \in BOOLEAN
    /\ current_price \in GridPrices
    /\ grid_prices = <<>>
    /\ level = 0
    /\ todo = <<>>
    /\ resume = "none"
    /\ entered_by = "none"
    /\ base_balance = 0
    /\ order_check_age = 0
    /\ summary_age = 0
    /\ since_reconcile = 0
    /\ since_summary = 0
    /\ emitted = <<>>
    /\ NotifyStart(DefaultNotificationConfig)
    /\ ErrorStart(DefaultErrorConfig)

\* lines 757-762: the trend check and the adjustment of the configuration
AdjustParameters ==
    /\ emitted = <<>>
    /\ lastRun = <<>>
    /\ \E trend_data \in GridTrends :
        /\ config' = adjust_grid_parameters(config, trend_data)
        /\ UNCHANGED reportVars
        /\ lastRun' = <<[op |-> "adjust_grid_parameters", pre |-> config,
                         trend_data |-> trend_data]>>
    /\ UNCHANGED <<trades, exchange, trading_stats, pc, depth, initial_price,
                   have_quote_currency, current_price, grid_prices, level,
                   todo, resume, entered_by, base_balance, emitted>>
    /\ UNCHANGED clockVars

CreateGrid ==
    /\ emitted = <<>>
    /\ LET lower_bound == LowerBound(current_price, config.grid_range_percentage)
           upper_bound == UpperBound(current_price, config.grid_range_percentage)
       IN IF GridRaises(lower_bound, upper_bound)
          THEN /\ grid_prices' = <<>>
               /\ emitted' = <<"ZeroDivisionError">>
          ELSE /\ grid_prices' = create_nonlinear_grid(current_price, lower_bound,
                                      upper_bound, config.grid_levels, config)
               /\ emitted' = <<"create_nonlinear_grid">>
    /\ level' = 1
    /\ UNCHANGED <<trades, exchange, trading_stats, lastRun, pc, depth, config,
                   initial_price, have_quote_currency, current_price,
                   todo, resume, entered_by, base_balance>>
    /\ UNCHANGED clockVars
    /\ UNCHANGED reportVars

\* one iteration of the placement loop (848-869) over the grid, every
\* order being accepted by the exchange
PlaceGridLevel ==
    /\ pc = "idle"
    /\ level \in 1..Len(grid_prices)
    /\ LET o == GridOrder(config, grid_prices, current_price,
                          have_quote_currency, level)
       IN IF o.type = "none"
          THEN /\ emitted' = <<"no order">>
               /\ UNCHANGED <<trades, exchange, trading_stats>>
          ELSE /\ emitted' = <<"place_order_direct">>
               /\ LET r == place_order_direct(State, o.type, o.price,
                                              o.volume, "accepted")
                  IN /\ trades' = r.ts
                     /\ exchange' = r.ex
                     /\ trading_stats' = r.stats
    /\ level' = level + 1
    /\ UNCHANGED <<lastRun, pc, depth, config, initial_price,
                   have_quote_currency, current_price, grid_prices,
                   todo, resume, entered_by, base_balance>>
    /\ UNCHANGED clockVars
    /\ UNCHANGED reportVars

GridNext == AdjustParameters \/ CreateGrid \/ PlaceGridLevel

GridSpec == GridInit /\ [][GridNext]_vars

GridCalled == emitted # <<>> /\ Head(emitted) \in {"create_nonlinear_grid", "ZeroDivisionError"}

\* C24: for every price, range percentage and level count >= 2 the call
\* yields a grid of exactly grid_levels prices in non-decreasing order whose
\* first price is the rounded lower bound and whose last price is the
\* rounded upper bound.
C24_GridShape ==
    GridCalled =>
        /\ Len(grid_prices) = config.grid_levels
        /\ \A n \in 1..(Len(grid_prices) - 1) : grid_prices[n] <= grid_prices[n + 1]
        /\ grid_prices[1] = LowerBound(current_price, config.grid_range_percentage)
        /\ grid_prices[Len(grid_prices)] =
              UpperBound(current_price, config.grid_range_percentage)

\* C25: the prices of a generated grid are pairwise distinct, in strictly
\* increasing order, for every price, range percentage and level count >= 2.
C25_GridStrictlyIncreasing ==
    (GridCalled /\ grid_prices # <<>>) =>
        \A n \in 1..(Len(grid_prices) - 1) : grid_prices[n] < grid_prices[n + 1]

Distance(a, b) == IF a > b THEN a - b ELSE b - a

\* the grid levels whose price is nearest to the price the grid was built at
NearestLevels(grid, price) ==
    {c \in DOMAIN grid :
        \A j \in DOMAIN grid : Distance(grid[c], price) <= Distance(grid[j], price)}

\* C26: every order of the placement loop is allocated A/N when dynamic
\* sizing is off; when it is on, a buy d index-steps from the level nearest
\* the current price is allocated A/N * max(0.7, 1 - 0.05 d) and a sell d
\* index-steps from it A/N * (1 + 0.10 d)  (a buy's volume is its
\* allocation divided by its price, a sell's volume is its allocation).
C26_LevelAllocation ==
    [][(pc = "idle" /\ level' = level + 1 /\ Len(trades') = Len(trades) + 1)
         => LET t == trades'[Len(trades')]
                base == config.total_allocation \div config.grid_levels
            IN \E c \in NearestLevels(grid_prices, current_price) :
                 LET d == Distance(level, c)
                     allocation ==
                         IF ~config.dynamic_sizing THEN base
                         ELSE IF t.type = "buy"
                         THEN (base * Max(70, 100 - 5 * d)) \div 100
                         ELSE (base * (100 + 10 * d)) \div 100
                 IN t.volume = IF t.type = "buy"
                               THEN (allocation * 10000) \div t.price
                               ELSE allocation]_vars

Adjusted == lastRun # <<>> /\ lastRun[1].op = "adjust_grid_parameters"

\* C27: the configuration adjust_grid_parameters returns has the range
\* min(5.0, 1.2 r) on a bullish trend, max(2.0, 0.8 r) on a bearish one and
\* r on a neutral one, the allocation max(50, 0.9 A) when the price change
\* exceeds 10 % in either direction and A otherwise, and every other field
\* as it was; with no trend data it is the configuration itself.
C27_TrendAdjustment ==
    Adjusted =>
        LET cfg == lastRun[1].pre
            td == lastRun[1].trend_data
            r == cfg.grid_range_percentage
            A == cfg.total_allocation
            range == IF td.trend = "bullish"
                     THEN (IF (12 * r) \div 10 < 500 THEN (12 * r) \div 10 ELSE 500)
                     ELSE IF td.trend = "bearish"
                     THEN (IF (8 * r) \div 10 > 200 THEN (8 * r) \div 10 ELSE 200)
                     ELSE r
            allocation == IF td.price_change > 10 \/ td.price_change < 0 - 10
                          THEN (IF (9 * A) \div 10 > 500 THEN (9 * A) \div 10 ELSE 500)
                          ELSE A
        IN IF td = NoTrend
           THEN config = cfg
           ELSE config = [cfg EXCEPT !.grid_range_percentage = range,
                                     !.total_allocation = allocation]

C27_Witness ==
    /\ Adjusted
    /\ lastRun[1].trend_data = [trend |-> "bearish", price_change |-> 0 - 12]
    /\ lastRun[1].pre.grid_range_percentage = 220
    /\ config.grid_range_percentage = 200
    /\ lastRun[1].pre.total_allocation = 550
    /\ config.total_allocation = 500
    /\ config.grid_levels = lastRun[1].pre.grid_levels

\* the open orders that are older than the timeout
TimedOut(ex) == {x \in OpenTxids(ex) : ex[x].timed_out}

\* C28: a tick that passes the stop-loss test and is answered a non-empty
\* list of open orders queues exactly the open orders older than the
\* timeout for cancellation, each of them is then handed to cancel_order,
\* and after the last one the grid is rebuilt with the configuration in
\* effect; when no open order is older than the timeout the tick cancels
\* nothing and starts no rebuild on account of the timeout.
C28_OrderTimeout ==
    [][/\ (PastStopLoss /\ ~Emitted(emitted', NoOpenOrdersEvent)
              /\ OpenTxids(exchange') # {}
             => IF TimedOut(exchange') # {}
                THEN /\ pc' = "cancelling"
                     /\ resume' = "rebuild"
                     /\ Range(todo') = TimedOut(exchange')
                     /\ Len(todo') = Cardinality(TimedOut(exchange'))
                ELSE /\ pc' # "cancelling"
                     /\ todo' = todo
                     /\ ~Emitted(emitted', "cancel_order")
                     /\ \A x \in OpenTxids(exchange) : exchange'[x].status = "open"
                     /\ pc' = "building" => entered_by' # "timeout")
       /\ (pc = "cancelling" /\ resume = "rebuild" /\ emitted' # <<>>
             => /\ Head(emitted') = "cancel_order"
                /\ todo' = Tail(todo)
                /\ IF todo' # <<>>
                   THEN pc' = "cancelling" /\ resume' = "rebuild"
                   ELSE /\ pc' = "building"
                        /\ entered_by' = "timeout"
                        /\ depth' = depth + 1
                        /\ config' = config)]_vars

C28_Witness ==
    /\ pc = "building"
    /\ entered_by = "timeout"
    /\ emitted = <<"cancel_order">>
    /\ \E x \in DOMAIN exchange : exchange[x].status = "canceled"
    /\ \E x \in OpenTxids(exchange) : ~exchange[x].timed_out

\* the step is a tick whose price fetch failed
PriceFetchFailed ==
    /\ pc = "monitoring"
    /\ Len(emitted') >= 2
    /\ emitted'[1] = "time.sleep"
    /\ emitted'[2] = NoPriceEvent

\* C29: a tick whose price fetch fails does nothing else: it cancels and
\* places no order, does not reconcile, asks for no open orders, leaves the
\* ledger, the exchange and the counters as they were, and the program
\* stays in the monitoring loop of the same invocation with the same
\* baseline price, grid and configuration.
C29_FailedFetchSkipsTick ==
    [][PriceFetchFailed
         => /\ emitted' = <<"time.sleep", NoPriceEvent>>
            /\ trades' = trades
            /\ exchange' = exchange
            /\ trading_stats' = trading_stats
            /\ pc' = "monitoring"
            /\ depth' = depth
            /\ initial_price' = initial_price
            /\ config' = config
            /\ grid_prices' = grid_prices
            /\ todo' = todo
            /\ have_quote_currency' = have_quote_currency]_vars

C29_Witness ==
    /\ pc = "monitoring"
    /\ emitted = <<"time.sleep", NoPriceEvent>>
    /\ current_price = None
    /\ initial_price # None
    /\ OpenTxids(exchange) # {}

----------------------------------------------------------------------------
\* NotificationManager: send_notification with its throttling, under a
\* configuration fixed at construction, and the passing of time.

MaxClock == 5       \* the clock runs from 1 to MaxClock seconds
SecondsPerHour == 3600
MaxSends == 3       \* notifications of one level sent without throttling

NotificationConfigs ==
    {[throttling |-> t, notification_levels |-> n, pushover |-> p] :
        t \in BOOLEAN,
        n \in {[l \in Levels |-> TRUE], [l \in Levels |-> l # "trade"]},
        p \in BOOLEAN}

NotifyInit ==
    /\ trades = <<>>
    /\ exchange = <<>>
    /\ trading_stats = [total_trades |-> 0, successful_trades |-> 0,
                        failed_trades |-> 0]
    /\ lastRun = <<>>
    /\ pc = "idle"
    /\ depth = 0
    /\ config = DefaultConfig
    /\ initial_price = None
    /\ have_quote_currency = FALSE
    /\ current_price = None
    /\ grid_prices = <<>>
    /\ level = 0
    /\ todo = <<>>
    /\ resume = "none"
    /\ entered_by = "none"
    /\ base_balance = 0
    /\ order_check_age = 0
    /\ summary_age = 0
    /\ since_reconcile = 0
    /\ since_summary = 0
    /\ emitted = <<>>
    /\ \E cfg \in NotificationConfigs : NotifyStart(cfg)
    /\ ErrorStart(DefaultErrorConfig)

\* (a variant that does not look at the time of the last notification)
should_throttle_CountOnly(cfg, counts, last_time, now, lvl) ==
    IF ~cfg.throttling THEN FALSE
    ELSE IF ~cfg.notification_levels[lvl] THEN TRUE
    ELSE counts[lvl] >= MaxPerHour

\* NotificationManager._should_throttle
should_throttle(cfg, counts, last_time, now, lvl) ==
    IF ~cfg.throttling THEN FALSE
    ELSE IF ~cfg.notification_levels[lvl] THEN TRUE
    ELSE IF counts[lvl] >= MaxPerHour THEN TRUE
    ELSE IF last_time[lvl] # None
    THEN now - last_time[lvl] < MinSeconds
    ELSE FALSE

\* the notifiers of the manager, in the order they were registered
Notifiers(cfg) ==
    (IF cfg.pushover THEN <<"pushover">> ELSE <<>>) \o <<"console">>

\* NotificationManager.send_notification(title, message, level)
SendNotification ==
    /\ \E lvl \in Levels :
        IF should_throttle(notification_config, notification_counts,
                           last_notification_time, clock, lvl)
        THEN /\ emitted' = <<"send_notification", lvl, "throttled">>
             /\ UNCHANGED <<notification_counts, last_notification_time>>
        ELSE /\ notification_counts[lvl] < MaxSends
             /\ notification_counts' =
                    [notification_counts EXCEPT ![lvl] = @ + 1]
             /\ last_notification_time' =
                    [last_notification_time EXCEPT ![lvl] = clock]
             /\ emitted' = <<"send_notification", lvl>>
                                \o Notifiers(notification_config)
    /\ UNCHANGED <<notification_config, clock>>
    /\ UNCHANGED <<ledgerVars, programVars>>
    /\ UNCHANGED errorVars

\* a second passes
Elapse ==
    /\ clock < MaxClock
    /\ clock' = clock + 1
    /\ emitted' = <<>>
    /\ UNCHANGED <<notification_config, notification_counts,
                   last_notification_time>>
    /\ UNCHANGED <<ledgerVars, programVars>>
    /\ UNCHANGED errorVars

\* an hour passes without a send_notification call
ElapseHour ==
    /\ clock <= MaxClock
    /\ clock' = clock + SecondsPerHour
    /\ emitted' = <<>>
    /\ UNCHANGED <<notification_config, notification_counts,
                   last_notification_time>>
    /\ UNCHANGED <<ledgerVars, programVars>>
    /\ UNCHANGED errorVars

NotifyNext == SendNotification \/ Elapse \/ ElapseHour

NotifySpec == NotifyInit /\ [][NotifyNext]_vars

\* the step is a send_notification call for level lvl
Sends(lvl) ==
    /\ Len(emitted') >= 2
    /\ emitted'[1] = "send_notification"
    /\ emitted'[2] = lvl

C31_TrendNeverReversesRange ==
    Adjusted =>
        LET before == lastRun[1].pre.grid_range_percentage
            trend == lastRun[1].trend_data.trend
        IN /\ trend = "bullish" => config.grid_range_percentage >= before
           /\ trend = "bearish" => config.grid_range_percentage <= before

\* C32: adjust_grid_parameters never returns a total allocation greater
\* than the one it was given.
C32_AllocationNeverGrows ==
    Adjusted => config.total_allocation <= lastRun[1].pre.total_allocation


----------------------------------------------------------------------------
(* Margin matching over a ledger of filled orders: the ledger the program  *)
(* holds after a number of grid orders, placed at the prices of several    *)
(* builds, have been filled and reconciled.                                *)

MaxMatched == 4         \* filled orders in the ledger

MatchedOrders ==
    {[type |-> t, price |-> p, volume |-> v] :
        t \in {"buy", "sell"}, p \in {4800, 5000, 5200}, v \in {40, 90}}

\* the exchange's order for the k-th order placed, after it was filled
FilledOrder(o) ==
    [ExchangeOrder(o.type, o.price, o.volume) EXCEPT !.status = "closed"]

\* the ledger record of the k-th order placed, after placement under txid k
\* and the reconciliation of its fill
FilledTrade(k, o) ==
    LET row == ClosedOrderRow(FilledOrder(o))
        trade == [NewTrade(<<>>, o.type, o.price, o.volume) EXCEPT !.id = k]
    IN [AcceptedTrade(trade, k) EXCEPT !.status = "filled",
                                       !.filled_volume = row.vol_exec,
                                       !.actual_price = row.price,
                                       !.cost = row.cost,
                                       !.fee = row.fee]

MarginInit ==
    /\ \E n \in 1..MaxMatched : \E os \in [1..n -> MatchedOrders] :
          /\ trades = [k \in 1..n |-> FilledTrade(k, os[k])]
          /\ exchange = [k \in 1..n |-> FilledOrder(os[k])]
          /\ trading_stats = [total_trades |-> n, successful_trades |-> n,
                              failed_trades |-> 0]
    /\ lastRun = <<>>
    /\ pc = "idle"
    /\ depth = 0
    /\ config = DefaultConfig
    /\ initial_price = None
    /\ have_quote_currency = FALSE
    /\ current_price = None
    /\ grid_prices = <<>>
    /\ level = 0
    /\ todo = <<>>
    /\ resume = "none"
    /\ entered_by = "none"
    /\ base_balance = 0
    /\ order_check_age = 0
    /\ summary_age = 0
    /\ since_reconcile = 0
    /\ since_summary = 0
    /\ emitted = <<>>
    /\ NotifyStart(DefaultNotificationConfig)
    /\ ErrorStart(DefaultErrorConfig)

MarginNext == CalculateMargins \/ PerformanceSummary

MarginSpec == MarginInit /\ [][MarginNext]_vars

\* the records of `margins` that reference sell id, in the order returned
RecordsOfSell(margins, id) ==
    SelectSeq(margins, LAMBDA m : m.sell_trade_id = id)

\* C33: for each filled sell, the margin records returned for it take the
\* buys in ascending order of buy price, whatever the order in which the
\* buys were recorded, and no record pairs a sell with a buy priced at or
\* above the sell price.
C33_CheapestBuyFirst ==
    JustRan =>
        LET margins == calculate_margins(PreLedger).margins
        IN /\ \A k \in 1..Len(margins) :
                margins[k].buy_price < margins[k].sell_price
           /\ \A i \in Ids(PreLedger) :
                LET recs == RecordsOfSell(margins, PreLedger[i].id)
                IN \A j, k \in 1..Len(recs) :
                     j < k => recs[j].buy_price <= recs[k].buy_price

\* a sell was matched first with a cheaper buy recorded after a dearer
\* one, while the ledger held a filled buy priced at the sell price and one
\* priced above a filled sell
C33_Witness ==
    /\ JustRan
    /\ \E b, s \in Ids(PreLedger) :
          /\ IsFilled(PreLedger[b], "buy") /\ IsFilled(PreLedger[s], "sell")
          /\ PreLedger[b].price >= PreLedger[s].price
    /\ LET margins == calculate_margins(PreLedger).margins
       IN \E j, k \in 1..Len(margins) :
            /\ j < k
            /\ margins[j].sell_trade_id = margins[k].sell_trade_id
            /\ margins[j].buy_price < margins[k].buy_price
            /\ margins[j].buy_trade_id > margins[k].buy_trade_id


----------------------------------------------------------------------------
(* Properties of the reconciliation, second part                           *)

\* the record of a reinvestment order: the only buys submitted at 1 % below
\* a ticker price
IsReinvestment(t) ==
    t.type = "buy" /\ t.price \in {ReinvestPrice(p) : p \in CurrentPrices}

Reinvestments(ts) == {i \in Ids(ts) : IsReinvestment(ts[i])}

\* C34: each sell fill triggers at most one reinvestment buy order, however
\* many later reconciliation runs read the same closed order again: a
\* check_closed_orders call submits at most one reinvestment order for each
\* sell record it takes to "filled" (none for those it finds filled), and
\* the ledger never holds more reinvestment orders than filled sells.
C34_OneReinvestmentPerSellFill ==
    /\ [](Cardinality(Reinvestments(trades))
            <= Cardinality({i \in Ids(trades) : IsFilled(trades[i], "sell")}))
    /\ [][emitted' = <<"check_closed_orders">>
            => Cardinality(Reinvestments(trades') \ Reinvestments(trades))
                 <= Cardinality({i \in Ids(trades) :
                                    /\ trades[i].type = "sell"
                                    /\ trades[i].status # "filled"
                                    /\ trades'[i].status = "filled"})]_vars

\* a reconciliation run has read again the closed sell for which an earlier
\* run submitted the reinvestment order: that order has been filled since,
\* and the run has recorded its fill
C34_Witness ==
    /\ emitted = <<"check_closed_orders">>
    /\ \E s \in Ids(trades) : IsFilled(trades[s], "sell")
    /\ \E b \in Reinvestments(trades) : trades[b].status = "filled"
    /\ Attempts(trading_stats) < MaxTrades


----------------------------------------------------------------------------
(* Properties of the placement loop                                        *)

\* the volumes of the sell orders of the ledger, added up
SellVolume(ts) ==
    SumSeq([k \in 1..Len(ts) |-> IF ts[k].type = "sell" THEN ts[k].volume ELSE 0])

\* C35: the sell orders submitted by one build add up to at most the
\* configured total allocation (the amount of base currency the balance
\* check at the entry of the build found available), with dynamic sizing
\* and without.
C35_SellsWithinAllocation ==
    SellVolume(trades) <= config.total_allocation


\* the step is the iteration of the placement loop for grid level `level`
PlacementStep ==
    /\ level \in 1..Len(grid_prices)
    /\ level' = level + 1
    /\ emitted' \in {<<"place_order_direct">>, <<"no order">>}

\* the step appends one record of the given side and limit price
Submits(side, price) ==
    /\ Len(trades') = Len(trades) + 1
    /\ trades'[Len(trades')].type = side
    /\ trades'[Len(trades')].price = price

\* C36: every buy order of a build is priced strictly below the current
\* price of that build and every sell order strictly above it; a grid level
\* priced at the current price gets no order; a level below the price gets
\* a buy exactly when the quote-currency check passed, and a level above the
\* price gets a sell whether it passed or not.
C36_OrdersAroundPrice ==
    /\ [](\A k \in Ids(trades) :
            /\ trades[k].type = "buy"
                 => trades[k].price < current_price /\ have_quote_currency
            /\ trades[k].type = "sell" => trades[k].price > current_price)
    /\ [][PlacementStep =>
            LET price == grid_prices[level]
            IN /\ price = current_price => trades' = trades
               /\ price > current_price => Submits("sell", price)
               /\ price < current_price =>
                    IF have_quote_currency THEN Submits("buy", price)
                    ELSE trades' = trades]_vars

\* the loop has passed a level priced at the current price without an order
\* for it, after buys below the price, and goes on to place a sell
C36_Witness ==
    /\ emitted = <<"no order">>
    /\ level \in 2..Len(grid_prices)
    /\ grid_prices[level - 1] = current_price
    /\ grid_prices[level] > current_price
    /\ have_quote_currency
    /\ \E k \in Ids(trades) : trades[k].type = "buy"


----------------------------------------------------------------------------
(* Properties of the notification throttling, second part                  *)

\* C37: the count of a level limits its notifications per hour, not per
\* process lifetime: with throttling enabled and the level enabled, a
\* send_notification call made an hour or more after the last notification
\* of its level was delivered is not throttled, however many were
\* delivered before.
C37_DeliverableAfterAnHour ==
    [][\A lvl \in Levels :
          (/\ Sends(lvl)
           /\ notification_config.throttling
           /\ notification_config.notification_levels[lvl]
           /\ last_notification_time[lvl] # None
           /\ clock - last_notification_time[lvl] >= SecondsPerHour)
          => emitted' # <<"send_notification", lvl, "throttled">>]_vars


----------------------------------------------------------------------------
\* ErrorHandler: handle_error with its recovery attempt and its
\* notification, under a configuration fixed at construction, and the
\* passing of time.

MaxErrors == 2                  \* handle_error calls per error type
MaxErrorNotifications == 1      \* max_notifications_per_hour of an error type

Severities == {"critical", "medium"}

\* recovery_func: None, a function that returns, a function that raises
RecoveryFuncs == {"None", "returns", "raises"}

MaxAttemptInputs == {1, 2}      \* max_recovery_attempts

ErrorConfigs ==
    [recovery_cooldown_minutes : {0, 5}, notification_manager : BOOLEAN]

ErrorInit ==
    /\ trades = <<>>
    /\ exchange = <<>>
    /\ trading_stats = [total_trades |-> 0, successful_trades |-> 0,
                        failed_trades |-> 0]
    /\ lastRun = <<>>
    /\ pc = "idle"
    /\ depth = 0
    /\ config = DefaultConfig
    /\ initial_price = None
    /\ have_quote_currency = FALSE
    /\ current_price = None
    /\ grid_prices = <<>>
    /\ level = 0
    /\ todo = <<>>
    /\ resume = "none"
    /\ entered_by = "none"
    /\ base_balance = 0
    /\ order_check_age = 0
    /\ summary_age = 0
    /\ since_reconcile = 0
    /\ since_summary = 0
    /\ emitted = <<>>
    /\ NotifyStart(DefaultNotificationConfig)
    /\ \E cfg \in ErrorConfigs : ErrorStart(cfg)

\* ErrorHandler._should_attempt_recovery; last_time is last_error_time as
\* the caller has left it
should_attempt_recovery(cfg, attempts, last_time, now, error_type, max_attempts) ==
    IF attempts[error_type] >= max_attempts THEN FALSE
    ELSE IF last_time[error_type] # None
    THEN ~(now - last_time[error_type] < cfg.recovery_cooldown_minutes * 60)
    ELSE TRUE

\* ErrorHandler._should_notify: .ret is what it returns, .counts the
\* error_counts it leaves (severity and error type enabled, as by default)
should_notify(counts, last_time, now, error_type, severity) ==
    IF severity = "critical" THEN [ret |-> TRUE, counts |-> counts]
    ELSE IF counts[error_type] > 0
            /\ counts[error_type] > MaxErrorNotifications
            /\ last_time[error_type] # None
    THEN IF last_time[error_type] > now - SecondsPerHour
         THEN [ret |-> FALSE, counts |-> counts]
         ELSE [ret |-> TRUE, counts |-> [counts EXCEPT ![error_type] = 1]]
    ELSE [ret |-> TRUE, counts |-> counts]

\* ErrorHandler.handle_error(error_type, ..., severity, notify,
\* recovery_func, max_recovery_attempts)
HandleError ==
    \E error_type \in ErrorTypes, severity \in Severities, notify \in BOOLEAN,
       recovery_func \in RecoveryFuncs, max_recovery_attempts \in MaxAttemptInputs :
        /\ error_counts[error_type] < MaxErrors
        /\ LET counted == [error_counts EXCEPT ![error_type] = @ + 1]
               stamped == [last_error_time EXCEPT ![error_type] = clock]
               attempt ==
                   /\ recovery_func # "None"
                   /\ should_attempt_recovery(error_config, recovery_attempts,
                          stamped, clock, error_type, max_recovery_attempts)
               asked == notify /\ error_config.notification_manager
               answer == should_notify(counted, stamped, clock, error_type,
                                       severity)
               sends == asked /\ answer.ret
               throttled == should_throttle(notification_config,
                                notification_counts, last_notification_time,
                                clock, "error")
           IN /\ last_error_time' = stamped
              /\ error_counts' = IF asked THEN answer.counts ELSE counted
              /\ recovery_attempts' =
                    IF attempt /\ recovery_func = "returns"
                    THEN [recovery_attempts EXCEPT ![error_type] = @ + 1]
                    ELSE recovery_attempts
              /\ IF sends /\ ~throttled
                 THEN /\ notification_counts' =
                            [notification_counts EXCEPT !["error"] = @ + 1]
                      /\ last_notification_time' =
                            [last_notification_time EXCEPT !["error"] = clock]
                 ELSE UNCHANGED <<notification_counts, last_notification_time>>
              /\ emitted' =
                    <<"handle_error">>
                        \o (IF attempt THEN <<"recovery_func">> ELSE <<>>)
                        \o (IF ~sends THEN <<>>
                            ELSE IF throttled
                            THEN <<"send_notification", "error", "throttled">>
                            ELSE <<"send_notification", "error">>
                                    \o Notifiers(notification_config))
        /\ lastRun' = <<[op |-> "handle_error", error_type |-> error_type,
                         recovery_func |-> recovery_func,
                         max_recovery_attempts |-> max_recovery_attempts,
                         recovery_attempts |-> recovery_attempts[error_type]]>>
        /\ UNCHANGED <<notification_config, clock, error_config>>
        /\ UNCHANGED <<trades, exchange, trading_stats, programVars>>

\* time passes between two errors
ErrorElapse ==
    /\ lastRun' = <<>>
    /\ \/ /\ clock < MaxClock
          /\ clock' = clock + 1
       \/ /\ clock <= MaxClock
          /\ clock' = clock + SecondsPerHour
    /\ emitted' = <<>>
    /\ UNCHANGED <<notification_config, notification_counts,
                   last_notification_time>>
    /\ UNCHANGED <<trades, exchange, trading_stats, programVars>>
    /\ UNCHANGED errorVars

ErrorNext == HandleError \/ ErrorElapse

ErrorSpec == ErrorInit /\ [][ErrorNext]_vars

\* the step just taken was a handle_error call
Handled == lastRun # <<>> /\ lastRun[1].op = "handle_error"

\* C38: a handle_error call that is given a recovery function, for an
\* error type with fewer recovery attempts so far than
\* max_recovery_attempts, invokes the recovery function, also when it is
\* the first error of that type.
C38_RecoveryAttempted ==
    (/\ Handled
     /\ lastRun[1].recovery_func # "None"
     /\ lastRun[1].recovery_attempts < lastRun[1].max_recovery_attempts)
        => Emitted(emitted, "recovery_func")

============================================================================
